---- MODULE Spec2Model ----
(***************************************************************************)
(* A10 BGP neighbor manager: the node-eligibility predicate (k8s.go), the  *)
(* A10 client with its mirrored neighbor list, login and retrying          *)
(* makeRequest (a10.go), startup pruning (removeExtraNeighbors) and the    *)
(* informer's event handlers.                                              *)
(*                                                                         *)
(* Strings that the code splits (the label selector, label keys and        *)
(* values) are sequences of one-character strings; "" is <<>>.  Addresses, *)
(* signatures and names are atomic strings.                                *)
(***************************************************************************)
EXTENDS Integers, Sequences, FiniteSets, TLC

VARIABLES
    \* ---- eligibility harness (nodeEligible as a pure function)
    enode,        \* the node under evaluation
    eselector,    \* the selector string under evaluation
    eresult,      \* what nodeEligible returned for them
    \* ---- the A10 struct
    neighbors,    \* a.neighbors: the mirrored list
    signature,    \* a.signature
    \* ---- the client operation in flight and the record of the last ones
    cur,          \* operation between its login and its request
    last,         \* the last completed client operation
    prev,         \* summary of the operation completed before it
    call,         \* the last makeRequest invocation
    \* ---- the program (main, removeExtraNeighbors, informer handlers)
    pc,           \* position of main / the informer goroutine
    cluster,      \* node name -> Node Record, or NoNode
    kubeNodes,    \* KubeNodes.Nodes
    a10Neighbors, \* the copy removeExtraNeighbors ranges over
    pi,           \* index of that range loop
    run,          \* bookkeeping of the run (device failures, prune calls)
    \* ---- removeExtraNeighbors ranging over a10.neighbors itself
    rarr,         \* backing array of a.neighbors
    rlen,         \* len(a.neighbors)
    ri,           \* index of the range loop
    rdesired,     \* kubeNodes.Nodes
    rcalls,       \* delete calls issued, per address
    rstate,       \* build flavour and loop status
    \* ---- AddNeighbor / RemoveNeighbor called from concurrent goroutines
    mu,           \* a.mu: the goroutine holding Lock, the ones holding RLock
    gpc,          \* position of each calling goroutine in its operation
    gloc,         \* locals of each calling goroutine
    cinit,        \* a.neighbors when the calls were made
    \* ---- the informer's listener: notifications and running handlers
    queue,        \* notifications delivered and not yet handled
    handling,     \* the handlers that have started and not returned
    returned,     \* number of handlers that have returned
    \* ---- the process environment
    environ,      \* the variables Config.Get reads
    \* ---- the process: HTTP client, context, informer, request in progress
    client,       \* A10.client
    ctx,          \* the context cancelled by the shutdown signal
    informer,     \* the goroutine of informer.Run and its cache
    inflight      \* the makeRequest invocation in progress and its attempts

evars == <<enode, eselector, eresult>>
avars == <<neighbors, signature>>
hvars == <<cur, last, prev, call>>
pvars == <<pc, cluster, kubeNodes, a10Neighbors, pi, run>>
rvars == <<rarr, rlen, ri, rdesired, rcalls, rstate>>
cvars == <<mu, gpc, gloc, cinit>>
qvars == <<queue, handling, returned>>
lvars == <<client, ctx, informer, inflight>>
vars == <<evars, avars, hvars, pvars, rvars, cvars, qvars, environ, lvars>>

----------------------------------------------------------------------------
(* Bounds of the model *)

MaxSelLen == 3      \* longest selector string enumerated
MaxAddrList == 2    \* longest node address list enumerated
MaxFetch == 2       \* longest device neighbor list enumerated
MaxEvents == 2      \* informer events processed after the initial sync
MaxRange == 3       \* longest mirrored list the in-place range loop starts from

(* Program constants *)

maxRequestRetries == 3
StatusOK == 200

----------------------------------------------------------------------------
(* Generic helpers *)

SeqsUpTo(S, n) == UNION {[1..k -> S] : k \in 0..n}

Range(s) == {s[i] : i \in 1..Len(s)}

\* slices.Contains
Contains(s, x) == \E i \in 1..Len(s) : s[i] = x

\* slices.Index: first index of x (1-based), 0 when absent (Go: -1)
Index(s, x) ==
    IF Contains(s, x) THEN CHOOSE i \in 1..Len(s) : s[i] = x /\ \A j \in 1..(i-1) : s[j] # x
    ELSE 0

\* slices.Delete(s, idx, idx+1) on the slice value
DeleteAt(s, i) == SubSeq(s, 1, i-1) \o SubSeq(s, i+1, Len(s))

Count(s, x) == Cardinality({i \in 1..Len(s) : s[i] = x})

----------------------------------------------------------------------------
(* Node Records and the eligibility predicate: k8s.go *)

SelChars == {"b", "c", "="}
Selectors == SeqsUpTo(SelChars, MaxSelLen)

ConditionTypes == {"Ready", "MemoryPressure"}
Conditions ==
    [type : {"Ready"}, status : {"True", "False", "Unknown"}]
        \cup [type : {"MemoryPressure"}, status : {"False"}]
\* node.Status.Conditions is a list keyed by condition type
ConditionLists ==
    {cs \in SeqsUpTo(Conditions, Cardinality(ConditionTypes)) :
        \A i, j \in 1..Len(cs) : cs[i].type = cs[j].type => i = j}

ELabelMaps == {<<>>} \cup {[k \in {<<"b">>} |-> v] : v \in {<<>>, <<"c">>}}

EAddrEntries == [type : {"ExternalIP", "InternalIP"}, address : {"", "a1"}]
EAddrLists == SeqsUpTo(EAddrEntries, MaxAddrList)

ENodes ==
    [conditions : ConditionLists, unschedulable : BOOLEAN,
     labels : ELabelMaps, addresses : EAddrLists, present : {TRUE}]

\* strings.Split(label, "=")
RECURSIVE Split(_)
Split(s) ==
    IF \E i \in 1..Len(s) : s[i] = "="
    THEN LET i == CHOOSE k \in 1..Len(s) :
                      s[k] = "=" /\ \A j \in 1..(k-1) : s[j] # "="
         IN <<SubSeq(s, 1, i-1)>> \o Split(SubSeq(s, i+1, Len(s)))
    ELSE <<s>>

\* node.Labels[key]: a missing key reads as the empty string
LabelAt(labels, key) == IF key \in DOMAIN labels THEN labels[key] ELSE <<>>

\* the loop of nodeReady: every Ready condition overwrites the result
RECURSIVE ReadyLoop(_, _, _)
ReadyLoop(cs, i, ready) ==
    IF i > Len(cs) THEN ready
    ELSE ReadyLoop(cs, i + 1,
                   IF cs[i].type = "Ready" THEN cs[i].status = "True" ELSE ready)

nodeReady(node) == ReadyLoop(node.conditions, 1, FALSE)

nodeCordoned(node) == node.unschedulable

nodeLabeled(node, label) ==
    LET parts == Split(label) IN
    IF Len(parts) # 2 THEN FALSE
    ELSE LabelAt(node.labels, parts[1]) = parts[2]

\* first entry of type ExternalIP wins, whatever its value
RECURSIVE AddressLoop(_, _)
AddressLoop(as, i) ==
    IF i > Len(as) THEN ""
    ELSE IF as[i].type = "ExternalIP" THEN as[i].address
    ELSE AddressLoop(as, i + 1)

nodeExternalAddress(node) == AddressLoop(node.addresses, 1)

nodeEligibleCordonIgnored(node, label) ==
    LET address == nodeExternalAddress(node) IN
    [eligible |-> nodeReady(node) /\ address # "" /\ nodeLabeled(node, label),
     address |-> address]

nodeEligible(node, label) ==
    LET address == nodeExternalAddress(node) IN
    [eligible |-> nodeReady(node) /\ ~nodeCordoned(node) /\ address # ""
                    /\ nodeLabeled(node, label),
     address |-> address]

NoResult == [eligible |-> FALSE, address |-> "-"]

----------------------------------------------------------------------------
(* The device as the client sees it: outcomes of single HTTP attempts *)

Addrs == {"a1", "a2"}
Sigs == {"s1", "s2"}

\* a.remoteAS as configured, and another AS the device may report
remoteAS == 54321
ASNumbers == {remoteAS, 99}

\* status codes other than 200 a device answers with
FailCodes == {204, 500}

BadJson == [json |-> FALSE, sig |-> "", list |-> <<>>]
NoBody == BadJson
SigBody(s) == [json |-> TRUE, sig |-> s, list |-> <<>>]
ListBody(l) == [json |-> TRUE, sig |-> "", list |-> l]
AckBody == ListBody(<<>>)

DeviceEntries == [ip : Addrs, as : ASNumbers]
DeviceLists == SeqsUpTo(DeviceEntries, MaxFetch)

\* a JSON body without authresponse.signature unmarshals to the empty signature
LoginBodies == {SigBody(s) : s \in Sigs \cup {""}} \cup {BadJson}
ListBodies == {ListBody(l) : l \in DeviceLists} \cup {BadJson}
AckBodies == {AckBody}

\* one attempt: the connection is never made (nothing is written), the
\* request is written and no response arrives (timeout, reset), the device
\* answers with a status, the answer's body cannot be read, or the request
\* cannot be written because its body reader is already drained
Dial == [k |-> "dial", code |-> 0, body |-> NoBody]
Timeout == [k |-> "timeout", code |-> 0, body |-> NoBody]
CLen == [k |-> "clen", code |-> 0, body |-> NoBody]
Status(c) == [k |-> "resp", code |-> c, body |-> NoBody]
Ok(b) == [k |-> "resp", code |-> StatusOK, body |-> b]
ReadFail == [k |-> "readfail", code |-> StatusOK, body |-> NoBody]
Pad == Dial

FailOutcomes == {Dial, Timeout} \cup {Status(c) : c \in FailCodes}
Terminal(bodies) == {Ok(b) : b \in bodies} \cup {ReadFail}
Written(o) == o.k \in {"timeout", "resp", "readfail"}

\* what the network and the device do on the successive attempts of one
\* makeRequest; positions no attempt can reach or observe hold Pad
Scripts(hasBody, bodies) ==
    LET T == Terminal(bodies)
        Stop == {f \in FailOutcomes : hasBody /\ Written(f)}
        Go == FailOutcomes \ Stop
    IN {<<t, Pad, Pad>> : t \in T \cup Stop}
        \cup {<<f, t, Pad>> : f \in Go, t \in T \cup Stop}
        \cup {<<f, g, x>> : f \in Go, g \in Go, x \in FailOutcomes \cup T}

At(script, i) == IF i \in 1..Len(script) THEN script[i] ELSE Pad

----------------------------------------------------------------------------
(* a10.go: errors, makeRequest, login *)

NoLast == [k |-> "none", code |-> 0]
Nil == [t |-> "nil", retries |-> 0, last |-> NoLast]
ReadErr == [t |-> "read", retries |-> 0, last |-> NoLast]
JsonErr == [t |-> "json", retries |-> 0, last |-> NoLast]
RetriesErr(lastErr) == [t |-> "retries", retries |-> maxRequestRetries, last |-> lastErr]

OpNil == [stage |-> "none", cause |-> Nil]
OpErr(stage, cause) == [stage |-> stage, cause |-> cause]

\* http.NewRequestWithContext: a POST reads its body from one bytes.Buffer
NewRequest(hasBody) == [hasBody |-> hasBody, consumed |-> FALSE]

\* a.client.Do(req): an attempt that wrote the request drained the buffer,
\* and a later Do of the same req fails before anything is sent
Do(req, o) ==
    LET eff == IF req.hasBody /\ req.consumed THEN CLen ELSE o
    IN [out |-> eff,
        req |-> [req EXCEPT !.consumed = @ \/ Written(eff)]]

NoMR == [err |-> Nil, body |-> NoBody, n |-> 0, auth |-> "-"]

\* the for loop of makeRequest, i counted from 1
RECURSIVE RetryLoop(_, _, _, _, _, _)
RetryLoop(req, sig, script, i, lastErr, limit) ==
    IF i > limit
    THEN [err |-> RetriesErr(lastErr), body |-> NoBody, n |-> i - 1, auth |-> sig]
    ELSE LET d == Do(req, At(script, i))
             o == d.out
         IN IF o.k \in {"dial", "timeout", "clen"}
            THEN RetryLoop(d.req, sig, script, i + 1,
                           [k |-> "transport", code |-> 0], limit)
            ELSE IF o.code # StatusOK
            THEN RetryLoop(d.req, sig, script, i + 1,
                           [k |-> "status", code |-> o.code], limit)
            ELSE IF o.k = "readfail"
            THEN [err |-> ReadErr, body |-> NoBody, n |-> i, auth |-> sig]
            ELSE [err |-> Nil, body |-> o.body, n |-> i, auth |-> sig]

makeRequestOneRetryShort(req, sig, script) ==
    RetryLoop(req, sig, script, 1, NoLast, maxRequestRetries - 1)

makeRequest(req, sig, script) ==
    RetryLoop(req, sig, script, 1, NoLast, maxRequestRetries)

loginStoreClearOnError(sig, r) ==
    IF r.err # Nil THEN [err |-> r.err, signature |-> "", mr |-> r]
    ELSE IF ~r.body.json THEN [err |-> JsonErr, signature |-> "", mr |-> r]
    ELSE [err |-> Nil, signature |-> r.body.sig, mr |-> r]

\* login after its makeRequest returned r: the signature is stored only
\* when the request succeeded and its body parsed
loginStore(sig, r) ==
    IF r.err # Nil THEN [err |-> r.err, signature |-> sig, mr |-> r]
    ELSE IF ~r.body.json THEN [err |-> JsonErr, signature |-> sig, mr |-> r]
    ELSE [err |-> Nil, signature |-> r.body.sig, mr |-> r]

login(sig, script) == loginStore(sig, makeRequest(NewRequest(TRUE), sig, script))

----------------------------------------------------------------------------
(* a10.go: the operations on the mirrored list.  An operation is its head  *)
(* (membership check and login) followed by its tail (the request and the  *)
(* update of a.neighbors); env.login and env.req script the two requests.  *)

containsNeighborFirstOnly(nbrs, ip) == Len(nbrs) > 0 /\ nbrs[1] = ip

containsNeighbor(nbrs, ip) == Contains(nbrs, ip)

\* result of an operation or of one of its halves
Res(nbrs, sig, err, done, lg, rq) ==
    [neighbors |-> nbrs, signature |-> sig, err |-> err, done |-> done,
     login |-> lg, req |-> rq]

\* the filter loop of GetNeighbors over response.Ipv4NeighborList
RECURSIVE FilterLoop(_, _, _)
FilterLoop(list, i, acc) ==
    IF i > Len(list) THEN acc
    ELSE FilterLoop(list, i + 1,
                    IF list[i].as = remoteAS THEN Append(acc, list[i].ip) ELSE acc)

FilterNeighborsKeepOld(old, list) == FilterLoop(list, 1, old)

FilterNeighbors(old, list) == FilterLoop(list, 1, <<>>)

LoginContinue(nbrs, l) ==
    Res(nbrs, l.signature, IF l.err = Nil THEN OpNil ELSE OpErr("login", l.err),
        FALSE, l.mr, NoMR)

\* login, then on failure return
LoginReturn(nbrs, l) ==
    Res(nbrs, l.signature, IF l.err = Nil THEN OpNil ELSE OpErr("login", l.err),
        l.err # Nil, l.mr, NoMR)

LoginHead(nbrs, sig, script) == LoginReturn(nbrs, login(sig, script))

GetNeighborsHead(nbrs, sig, script) == LoginHead(nbrs, sig, script)

\* the rest of GetNeighbors after its makeRequest returned r
GetNeighborsStore(nbrs, sig, r) ==
    IF r.err # Nil THEN Res(nbrs, sig, OpErr("request", r.err), TRUE, NoMR, r)
    ELSE IF ~r.body.json THEN Res(nbrs, sig, OpErr("unmarshal", JsonErr), TRUE, NoMR, r)
    ELSE Res(FilterNeighbors(nbrs, r.body.list), sig, OpNil, TRUE, NoMR, r)

GetNeighborsTail(nbrs, sig, script) ==
    GetNeighborsStore(nbrs, sig, makeRequest(NewRequest(FALSE), sig, script))

AddNeighborCheckAfter(nbrs, ip, h) ==
    IF h.done THEN h
    ELSE IF containsNeighbor(nbrs, ip)
    THEN Res(nbrs, h.signature, OpNil, TRUE, h.login, NoMR)
    ELSE h

AddNeighborHeadLoginFirst(nbrs, sig, ip, script) ==
    AddNeighborCheckAfter(nbrs, ip, LoginHead(nbrs, sig, script))

AddNeighborHead(nbrs, sig, ip, script) ==
    IF containsNeighbor(nbrs, ip) THEN Res(nbrs, sig, OpNil, TRUE, NoMR, NoMR)
    ELSE LoginHead(nbrs, sig, script)

AddNeighborStoreOnError(nbrs, sig, ip, r) ==
    Res(Append(nbrs, ip), sig,
        IF r.err # Nil THEN OpErr("request", r.err) ELSE OpNil, TRUE, NoMR, r)

\* the rest of AddNeighbor after its makeRequest returned r
AddNeighborStore(nbrs, sig, ip, r) ==
    IF r.err # Nil THEN Res(nbrs, sig, OpErr("request", r.err), TRUE, NoMR, r)
    ELSE Res(Append(nbrs, ip), sig, OpNil, TRUE, NoMR, r)

AddNeighborTail(nbrs, sig, ip, script) ==
    AddNeighborStore(nbrs, sig, ip, makeRequest(NewRequest(TRUE), sig, script))

RemoveNeighborHeadNoCheck(nbrs, sig, ip, script) == LoginHead(nbrs, sig, script)

RemoveNeighborHead(nbrs, sig, ip, script) ==
    IF ~containsNeighbor(nbrs, ip) THEN Res(nbrs, sig, OpNil, TRUE, NoMR, NoMR)
    ELSE LoginHead(nbrs, sig, script)

RemoveNeighborStoreOnError(nbrs, sig, ip, r) ==
    Res(DeleteAt(nbrs, Index(nbrs, ip)), sig,
        IF r.err # Nil THEN OpErr("request", r.err) ELSE OpNil, TRUE, NoMR, r)

\* the rest of RemoveNeighbor after its makeRequest returned r
RemoveNeighborStore(nbrs, sig, ip, r) ==
    IF r.err # Nil THEN Res(nbrs, sig, OpErr("request", r.err), TRUE, NoMR, r)
    ELSE Res(DeleteAt(nbrs, Index(nbrs, ip)), sig, OpNil, TRUE, NoMR, r)

RemoveNeighborTail(nbrs, sig, ip, script) ==
    RemoveNeighborStore(nbrs, sig, ip, makeRequest(NewRequest(FALSE), sig, script))

OpHead(op, nbrs, sig, ip, script) ==
    CASE op = "get" -> GetNeighborsHead(nbrs, sig, script)
      [] op = "add" -> AddNeighborHead(nbrs, sig, ip, script)
      [] op = "remove" -> RemoveNeighborHead(nbrs, sig, ip, script)

OpTail(op, nbrs, sig, ip, script) ==
    CASE op = "get" -> GetNeighborsTail(nbrs, sig, script)
      [] op = "add" -> AddNeighborTail(nbrs, sig, ip, script)
      [] op = "remove" -> RemoveNeighborTail(nbrs, sig, ip, script)

\* a whole operation
WithLogin(t, lg) == [t EXCEPT !.login = lg]
OpAfterHead(op, h, ip, script) ==
    IF h.done THEN h
    ELSE WithLogin(OpTail(op, h.neighbors, h.signature, ip, script), h.login)
Op(op, nbrs, sig, ip, env) ==
    OpAfterHead(op, OpHead(op, nbrs, sig, ip, env.login), ip, env.req)

GetNeighbors(nbrs, sig, env) == Op("get", nbrs, sig, "", env)
AddNeighborUnchecked(nbrs, sig, ip, env) ==
    OpAfterHead("add", LoginHead(nbrs, sig, env.login), ip, env.req)

AddNeighbor(nbrs, sig, ip, env) == Op("add", nbrs, sig, ip, env)
RemoveNeighbor(nbrs, sig, ip, env) == Op("remove", nbrs, sig, ip, env)

HasBody(op) == op = "add"
ReqBodies(op) == IF op = "get" THEN ListBodies ELSE AckBodies
ReqKind(op) ==
    CASE op = "get" -> "list" [] op = "add" -> "create" [] op = "remove" -> "delete"

----------------------------------------------------------------------------
(* Values of the variables while their part of the model is not running *)

NoNode == [conditions |-> <<>>, unschedulable |-> FALSE, labels |-> <<>>,
           addresses |-> <<>>, present |-> FALSE]
NoCur == [op |-> "none", arg |-> ""]
NoLastOp == [op |-> "none", arg |-> "", err |-> OpNil, logins |-> 0, reqs |-> 0,
             absent |-> FALSE]
NoPrev == [op |-> "none", arg |-> "", creates |-> 0]
NoCall == [kind |-> "none", hasBody |-> FALSE, script |-> <<>>, res |-> NoMR]

EIdle == enode = NoNode /\ eselector = <<>> /\ eresult = NoResult
AIdle == neighbors = <<>> /\ signature = ""
HIdle == cur = NoCur /\ last = NoLastOp /\ prev = NoPrev /\ call = NoCall
\* the last event handled: its kind, its node and the node's address, the
\* client calls made for it, the number of makeRequest invocations and
\* whether the client call returned nil
NoEvent == [kind |-> "none", name |-> "", address |-> "", calls |-> <<>>, net |-> 0,
            ok |-> TRUE]
NoRun == [allOk |-> TRUE, init |-> <<>>, deletes |-> [a \in Addrs \cup {""} |-> 0],
          creates |-> 0, synced |-> {}, events |-> 0, event |-> NoEvent,
          fetches |-> 0]
NoRange == [zero |-> FALSE, status |-> "off", init |-> <<>>, allOk |-> TRUE]
\* a.mu unlocked
NoLock == [writer |-> 0, readers |-> {}]

PIdle(p) ==
    /\ pc = p
    /\ cluster = <<>>
    /\ kubeNodes = <<>>
    /\ a10Neighbors = <<>>
    /\ pi = 0
    /\ run = NoRun
RIdle ==
    /\ rarr = <<>> /\ rlen = 0 /\ ri = 0 /\ rdesired = {}
    /\ rcalls = <<>>
    /\ rstate = NoRange
CIdle ==
    /\ mu = NoLock /\ gpc = <<>> /\ gloc = <<>> /\ cinit = <<>>
QIdle == queue = <<>> /\ handling = <<>> /\ returned = 0
NoEnviron == <<>>
XIdle == environ = NoEnviron
\* A10.client: nil, or the client AddHTTPClient builds
NilClient == "nil"
HTTPClient == "client"
NoInflight == [owner |-> "none", kind |-> "none", n |-> 0, ops |-> 0]
\* the process with its HTTP client in place, no signal received
LIdle ==
    /\ client = HTTPClient /\ ctx = "live" /\ informer = "new"
    /\ inflight = NoInflight

----------------------------------------------------------------------------
(* Specification SpecElig: nodeEligible applied to every node and selector *)

Evaluate ==
    /\ pc = "elig"
    /\ eresult = NoResult
    /\ eresult' = nodeEligible(enode, eselector)
    /\ UNCHANGED <<lvars, environ, enode, eselector, qvars, avars, hvars, pvars, rvars, cvars>>

InitElig ==
    /\ enode \in ENodes
    /\ eselector \in Selectors
    /\ eresult = NoResult
    /\ AIdle /\ HIdle /\ PIdle("elig") /\ RIdle /\ CIdle /\ QIdle /\ LIdle /\ XIdle
NextElig == Evaluate
SpecElig == InitElig /\ [][NextElig]_vars

----------------------------------------------------------------------------
(* Specification SpecClient: the A10 client driven by any sequence of      *)
(* GetNeighbors, AddNeighbor and RemoveNeighbor calls, one at a time, the  *)
(* device answering each attempt in any way.  A call is one step when it   *)
(* returns from its head, two steps (head, tail) otherwise.                *)

Calls(mr) == IF mr.n > 0 THEN 1 ELSE 0

\* the record of an operation that has returned
Record(op, ip, nbrs, res, logins) ==
    [op |-> op, arg |-> ip, err |-> res.err, logins |-> logins,
     reqs |-> Calls(res.req), absent |-> ~Contains(nbrs, ip)]

\* what is remembered of the operation before the last one: whether it was
\* a successful AddNeighbor of an absent address, and its create calls
PrevOf(l) ==
    IF l.op = "add" /\ l.err = OpNil /\ l.absent
    THEN [op |-> "add", arg |-> l.arg, creates |-> l.reqs]
    ELSE NoPrev

\* whether the head of the operation reaches login at all
ReachesLogin(op, ip) == OpHead(op, neighbors, signature, ip, <<>>).login.n > 0

ClientBegin(op, ip) ==
    /\ pc = "client"
    /\ cur = NoCur
    /\ \E script \in IF ReachesLogin(op, ip) THEN Scripts(TRUE, LoginBodies)
                      ELSE {<<>>} :
        \E h \in {OpHead(op, neighbors, signature, ip, script)} :
          /\ neighbors' = h.neighbors
          /\ signature' = h.signature
          /\ call' = IF h.login.n > 0
                     THEN [kind |-> "auth", hasBody |-> TRUE, script |-> script,
                           res |-> h.login]
                     ELSE NoCall
          /\ prev' = PrevOf(last)
          /\ IF h.done
             THEN /\ last' = Record(op, ip, neighbors, h, Calls(h.login))
                  /\ cur' = NoCur
             ELSE /\ last' = NoLastOp
                  /\ cur' = [op |-> op, arg |-> ip]
    /\ UNCHANGED <<lvars, environ, evars, qvars, pvars, rvars, cvars>>

ClientEnd ==
    /\ pc = "client"
    /\ cur # NoCur
    /\ \E script \in Scripts(HasBody(cur.op), ReqBodies(cur.op)) :
        \E t \in {OpTail(cur.op, neighbors, signature, cur.arg, script)} :
          /\ neighbors' = t.neighbors
          /\ signature' = t.signature
          /\ call' = [kind |-> ReqKind(cur.op), hasBody |-> HasBody(cur.op),
                      script |-> script, res |-> t.req]
          /\ last' = Record(cur.op, cur.arg, neighbors, t, 1)
          /\ cur' = NoCur
          /\ UNCHANGED prev
    /\ UNCHANGED <<lvars, environ, evars, qvars, pvars, rvars, cvars>>

CallGetNeighbors == ClientBegin("get", "")
CallAddNeighbor == \E ip \in Addrs : ClientBegin("add", ip)
CallRemoveNeighbor == \E ip \in Addrs : ClientBegin("remove", ip)

InitClient == EIdle /\ AIdle /\ HIdle /\ PIdle("client") /\ RIdle /\ CIdle /\ QIdle /\ LIdle /\ XIdle
NextClient ==
    \/ CallGetNeighbors
    \/ CallAddNeighbor
    \/ CallRemoveNeighbor
    \/ ClientEnd
SpecClient == InitClient /\ [][NextClient]_vars

----------------------------------------------------------------------------
(* Properties of nodeEligible, checked under SpecElig *)

HasReadyTrue(node) ==
    \E i \in 1..Len(node.conditions) :
        node.conditions[i] = [type |-> "Ready", status |-> "True"]

\* the node's external address: its first address entry of type ExternalIP
ExternalAddressOf(node) ==
    LET S == {i \in 1..Len(node.addresses) : node.addresses[i].type = "ExternalIP"}
    IN IF S = {} THEN ""
       ELSE node.addresses[CHOOSE i \in S : \A j \in S : i <= j].address

\* the <<key, value>> pairs of a selector that is key=value with no other "="
PlainStrings == SeqsUpTo(SelChars \ {"="}, MaxSelLen)
KeyValues(sel) ==
    {kv \in PlainStrings \X PlainStrings : sel = kv[1] \o <<"=">> \o kv[2]}

\* C2: nodeEligible returns true iff the node has a Ready condition with
\* status True, is not unschedulable, has a non-empty external address and
\* labels[key] = value for the selector's key and value; a selector that
\* does not split on "=" into exactly two parts makes it false.
C2_NodeEligibleIff ==
    eresult # NoResult =>
        (eresult.eligible <=>
            /\ HasReadyTrue(enode)
            /\ ~enode.unschedulable
            /\ ExternalAddressOf(enode) # ""
            /\ \E kv \in KeyValues(eselector) :
                  LabelAt(enode.labels, kv[1]) = kv[2])

C2_Witness ==
    /\ eresult # NoResult
    /\ eresult.eligible
    /\ eselector = <<"b", "=", "c">>
    /\ Len(enode.conditions) = 2
    /\ Len(enode.addresses) = 2

\* C20: for every selector that splits into exactly two parts (the value
\* part possibly empty), a node whose label map lacks the selector's key is
\* not reported as labeled by nodeLabeled and is not eligible.
C20_MissingKeyNotLabeled ==
    \A kv \in KeyValues(eselector) :
        kv[1] \notin DOMAIN enode.labels =>
            /\ ~nodeLabeled(enode, eselector)
            /\ eresult # NoResult => ~eresult.eligible

HasExternalIP(node) ==
    \E i \in 1..Len(node.addresses) : node.addresses[i].type = "ExternalIP"

\* C21: the address nodeEligible returns is the first ExternalIP entry of the
\* address list, and a node that meets the other criteria is eligible iff
\* its address list has at least one entry of type ExternalIP.
C21_AddressingCriterion ==
    eresult # NoResult =>
        /\ eresult.address = ExternalAddressOf(enode)
        /\ (/\ HasReadyTrue(enode)
            /\ ~enode.unschedulable
            /\ \E kv \in KeyValues(eselector) : LabelAt(enode.labels, kv[1]) = kv[2])
           => (eresult.eligible <=> HasExternalIP(enode))

----------------------------------------------------------------------------
(* Properties of the A10 client, checked under SpecClient *)

\* the operation a step of the client belongs to
StepOp == IF cur # NoCur THEN cur.op ELSE IF cur' # NoCur THEN cur'.op ELSE last'.op
StepArg == IF cur # NoCur THEN cur.arg ELSE IF cur' # NoCur THEN cur'.arg ELSE last'.arg

\* C5: AddNeighbor(a) called twice in sequence, a absent at first and the
\* first call succeeding, issues exactly one create call in total and leaves
\* a exactly once in the mirrored list.
C5_AddTwiceOneCreate ==
    (cur = NoCur /\ prev.op = "add" /\ last.op = "add" /\ last.arg = prev.arg) =>
        /\ prev.creates + last.reqs = 1
        /\ Count(neighbors, last.arg) = 1

C5_Witness ==
    /\ cur = NoCur
    /\ prev.op = "add" /\ last.op = "add" /\ last.arg = prev.arg
    /\ Len(neighbors) = 2

\* C6: AddNeighbor(a) with a in the mirrored list and RemoveNeighbor(a)
\* with a absent from it make no network call, not even a login, return
\* nil and leave the mirrored list and the signature unchanged.
C6_FastPathStep ==
    (/\ pc = "client" /\ cur = NoCur
     /\ \/ StepOp = "add" /\ Contains(neighbors, StepArg)
        \/ StepOp = "remove" /\ ~Contains(neighbors, StepArg))
    => /\ cur' = NoCur
       /\ last'.err = OpNil
       /\ last'.logins = 0 /\ last'.reqs = 0
       /\ call' = NoCall
       /\ neighbors' = neighbors
       /\ signature' = signature
C6_FastPathsSilent == [][C6_FastPathStep]_vars

C6_Witness ==
    /\ cur = NoCur
    /\ last.op = "add" /\ ~last.absent
    /\ last.err = OpNil /\ call = NoCall
    /\ signature # ""

\* C7: after a successful GetNeighbors the mirrored list is the sub-list, in
\* device order, of the fetched entries whose nbr-remote-as is remoteAS;
\* nothing of the previous content remains.
HasRemoteAS(e) == e.as = remoteAS
Fetched(c) == c.res.body.list
C7_FetchFilters ==
    (cur = NoCur /\ last.op = "get" /\ last.err = OpNil) =>
        LET kept == SelectSeq(Fetched(call), HasRemoteAS)
        IN neighbors = [i \in 1..Len(kept) |-> kept[i].ip]

C7_Witness ==
    /\ cur = NoCur /\ last.op = "get" /\ last.err = OpNil
    /\ prev.op = "add" /\ ~Contains(neighbors, prev.arg)
    /\ \E i \in 1..Len(Fetched(call)) : Fetched(call)[i].as # remoteAS
    /\ neighbors # <<>>

\* C8: after an AddNeighbor(a) that returns nil containsNeighbor(a) is
\* true, and after a RemoveNeighbor(a) that returns nil it is false,
\* whatever list the fetch produced.
C8_MembershipAfterOp ==
    (cur = NoCur /\ last.err = OpNil) =>
        /\ last.op = "add" => containsNeighbor(neighbors, last.arg)
        /\ last.op = "remove" => ~containsNeighbor(neighbors, last.arg)

\* what one makeRequest invocation met: attempt i fails when the request
\* body was drained by an earlier attempt or the scripted outcome is a failure
Drained(c, i) == c.hasBody /\ \E j \in 1..(i-1) : Written(c.script[j])
AttemptFails(c, i) == Drained(c, i) \/ c.script[i] \in FailOutcomes
AttemptSucceeds(c, i) ==
    ~Drained(c, i) /\ c.script[i].k = "resp" /\ c.script[i].code = StatusOK

\* the same operation half with its request answered at once by outcome o
Immediate(o) ==
    LET direct == <<o, Pad, Pad>> IN
    IF cur = NoCur THEN OpHead(StepOp, neighbors, signature, StepArg, direct)
    ELSE OpTail(cur.op, neighbors, signature, cur.arg, direct)

\* C9: a network call of any kind whose first two attempts fail and whose
\* third attempt gets a success response returns success, and the mirrored
\* list, the signature and the returned body are those of the same call
\* succeeding on its first attempt.
C9_RetryStep ==
    LET c == call' IN
    (/\ pc = "client" /\ c # NoCall
     /\ AttemptFails(c, 1) /\ AttemptFails(c, 2) /\ AttemptSucceeds(c, 3))
    => LET r == Immediate(c.script[3])
           d == IF cur = NoCur THEN r.login ELSE r.req
       IN /\ c.res.err = Nil
          /\ d.err = Nil /\ d.n = 1
          /\ c.res.body = d.body
          /\ neighbors' = r.neighbors
          /\ signature' = r.signature
          /\ (cur' = NoCur) = r.done
          /\ r.done => last'.err = r.err
LastFailure(c) ==
    IF Drained(c, 3) \/ c.script[3].k \in {"dial", "timeout"}
    THEN [k |-> "transport", code |-> 0]
    ELSE [k |-> "status", code |-> c.script[3].code]

\* C10: when all three attempts of a network call fail, makeRequest returns
\* an error that names the retry count 3 and carries the last error, the
\* enclosing operation returns an error, and the mirrored list is as it was
\* before the operation was called.
C10_ExhaustStep ==
    LET c == call' IN
    /\ (pc = "client" /\ cur = NoCur /\ cur' # NoCur) => neighbors' = neighbors
    /\ (/\ pc = "client" /\ c # NoCall
        /\ \A i \in 1..3 : AttemptFails(c, i))
       => /\ c.res.err.t = "retries"
          /\ c.res.err.retries = 3
          /\ c.res.err.last = LastFailure(c)
          /\ c.res.n = 3
          /\ cur' = NoCur
          /\ last'.op = StepOp
          /\ last'.err # OpNil /\ last'.err.cause = c.res.err
          /\ neighbors' = neighbors
C10_ExhaustedRetries == [][C10_ExhaustStep]_vars

C10_Witness ==
    /\ cur = NoCur /\ call.kind = "create"
    /\ \A i \in 1..3 : AttemptFails(call, i)
    /\ call.script[1].k = "resp"
    /\ last.op = "add" /\ last.err # OpNil
    /\ neighbors # <<>>

\* attempt i of the invocation was sent and answered with a 2xx status
Answered2xx(c, i) ==
    /\ i <= c.res.n
    /\ ~Drained(c, i)
    /\ c.script[i].k = "resp"
    /\ c.script[i].code \in 200..299

\* C11: makeRequest treats a response with any status in 200..299 as
\* success: that attempt is the last one, its body is returned and no error
\* is produced.
C11_Any2xxSucceeds ==
    \A i \in 1..maxRequestRetries :
        (call # NoCall /\ Answered2xx(call, i)) =>
            /\ call.res.n = i
            /\ call.res.err = Nil
            /\ call.res.body = call.script[i].body

\* the invocation was the request of login and login returned nil: it was
\* answered and the answer parsed
LoginSucceeded(c) == c.kind = "auth" /\ c.res.err = Nil /\ c.res.body.json
LoginFailed(c) == c.kind = "auth" /\ ~(c.res.err = Nil /\ c.res.body.json)

\* C28: a list, create or delete request is issued only by an operation
\* whose login succeeded just before, and it carries the signature that
\* login stored; when login fails the operation returns the error in that
\* step with no list, create or delete request and a.neighbors unchanged.
C28_Step ==
    /\ call'.kind \in {"list", "create", "delete"} =>
          /\ cur # NoCur /\ call'.kind = ReqKind(cur.op)
          /\ LoginSucceeded(call)
          /\ signature = call.res.body.sig
          /\ call'.res.auth = call.res.body.sig
    /\ LoginFailed(call') =>
          /\ cur' = NoCur
          /\ last'.err # OpNil /\ last'.err.stage = "login"
          /\ last'.reqs = 0
          /\ neighbors' = neighbors
C28_LoginBeforeRequest == [][C28_Step]_vars

\* a create request went out with the signature of the login before it,
\* which replaced the one stored earlier
C28_Witness ==
    /\ call.kind = "create" /\ call.res.err = Nil
    /\ call.res.auth = "s2" /\ signature = "s2"
    /\ last.op = "add" /\ last.logins = 1
    /\ Len(neighbors) = 2

\* C29: the session credential is obtained once: when a signature is
\* stored, no operation sends the login request again, however many
\* operations reach the device.
C29_Step == signature # "" => call'.kind # "auth"
C29_SingleLogin == [][C29_Step]_vars

\* the body of the response that ended the invocation
Answer(c) == c.script[c.res.n].body

\* C30: the stored signature changes only by a login that succeeds, which
\* stores the signature of its response whatever was stored before; a
\* login that fails (retries exhausted, body unread or unparseable) and
\* every other request leave it as it was.  So after any sequence of logins
\* it is the signature of the most recent successful one.
C30_Step ==
    /\ LoginSucceeded(call') =>
          /\ Answer(call').json
          /\ signature' = Answer(call').sig
    /\ LoginFailed(call') => signature' = signature
    /\ call'.kind # "auth" => signature' = signature
C30_LastSuccessfulLoginWins == [][C30_Step]_vars

\* a login failed on an unparseable body after an earlier one had stored s2
C30_Witness ==
    /\ LoginFailed(call) /\ call.res.err = Nil
    /\ signature = "s2"
    /\ last.err # OpNil /\ last.err.stage = "login"

\* attempt i of the invocation ended in a transport error or was answered
\* with a status outside 200..299
EndedInFailure(c, i) ==
    \/ Drained(c, i)
    \/ c.script[i].k \in {"dial", "timeout"}
    \/ c.script[i].k = "resp" /\ c.script[i].code \notin 200..299

\* C32: a makeRequest invocation makes between 1 and 3 attempts, every
\* attempt but the last ended in a transport error or a non-success status,
\* and an attempt answered with a success status is the last one; an
\* operation makes at most one login and one request invocation, hence at
\* most 6 attempts.
C32_BoundedAttempts ==
    /\ call # NoCall =>
          /\ call.res.n \in 1..3
          /\ \A i \in 1..(call.res.n - 1) : EndedInFailure(call, i)
          /\ \A i \in 1..call.res.n : Answered2xx(call, i) => call.res.n = i
    /\ last.logins <= 1 /\ last.reqs <= 1

\* C34: every attempt of a request that carries a body (the login POST, the
\* create POST) sends the payload of the first attempt: no attempt finds
\* the body consumed by an earlier attempt that was written to the device.
C34_BodyIntactOnRetry ==
    (call # NoCall /\ call.hasBody) =>
        \A i \in 1..call.res.n : ~Drained(call, i)

----------------------------------------------------------------------------
(* The program: main (fetch, GetNodes, removeExtraNeighbors) and then the   *)
(* informer, which delivers an add event for every existing node and then   *)
(* the add, update and delete events of the cluster, one handler at a time. *)

NodeNames == <<"n1", "n2">>

\* config.LabelSelector
label == <<"b", "=", "c">>

Node(ready, unschedulable, labeled, address) ==
    [conditions |-> <<[type |-> "Ready",
                       status |-> IF ready THEN "True" ELSE "False"]>>,
     unschedulable |-> unschedulable,
     labels |-> IF labeled THEN [k \in {<<"b">>} |-> <<"c">>] ELSE <<>>,
     addresses |-> IF address = "" THEN <<>>
                   ELSE <<[type |-> "ExternalIP", address |-> address]>>,
     present |-> TRUE]

\* the Node Records the cluster holds
ProgNodes ==
    {Node(TRUE, FALSE, TRUE, "a1"), Node(TRUE, FALSE, TRUE, "a2"),
     Node(FALSE, FALSE, TRUE, "a1"), Node(TRUE, TRUE, TRUE, "a2"),
     Node(TRUE, FALSE, FALSE, "a1"), Node(TRUE, FALSE, TRUE, "")}

Clusters == [Range(NodeNames) -> ProgNodes \cup {NoNode}]
Present(c) == {n \in Range(NodeNames) : c[n].present}

\* how the device answers the requests of one operation of the program:
\* each request is answered at once or fails on every attempt
ProgScripts(bodies) == {<<Ok(b), Pad, Pad>> : b \in bodies} \cup {<<Dial, Dial, Dial>>}
\* the lists the startup fetch can return: an entry without neighbor-ipv4
\* unmarshals to the empty address
ProgListBodies ==
    {ListBody(l) : l \in SeqsUpTo([ip : Addrs \cup {""}, as : ASNumbers], MaxFetch)}
        \cup {BadJson}
ProgReqBodies(op) == IF op = "get" THEN ProgListBodies ELSE ReqBodies(op)
ProgEnvs(op) ==
    [login : ProgScripts({SigBody("s1")}), req : ProgScripts(ProgReqBodies(op))]

\* an operation that made no failing attempt and returned nil
CallsSucceeded(res) == res.err = OpNil /\ res.login.n <= 1 /\ res.req.n <= 1

NoOp(nbrs, sig) == Res(nbrs, sig, OpNil, TRUE, NoMR, NoMR)

\* Nodes().List with LabelSelector, then the loop of GetNodes
RECURSIVE GetNodesLoop(_, _, _)
GetNodesLoop(c, i, nodes) ==
    IF i > Len(NodeNames) THEN nodes
    ELSE LET node == c[NodeNames[i]]
             listed == node.present /\ nodeLabeled(node, label)
             e == nodeEligible(node, label)
         IN GetNodesLoop(c, i + 1,
                IF listed /\ e.eligible THEN Append(nodes, e.address) ELSE nodes)

GetNodes(c, nodes) == GetNodesLoop(c, 1, nodes)

\* the informer's handlers
addEligibleAlways(e, nbrs, sig, env) == AddNeighbor(nbrs, sig, e.address, env)

addEligible(e, nbrs, sig, env) ==
    IF e.eligible THEN AddNeighbor(nbrs, sig, e.address, env) ELSE NoOp(nbrs, sig)
add(node, nbrs, sig, env) == addEligible(nodeEligible(node, label), nbrs, sig, env)

updateEligibleAddOnly(e, node, nbrs, sig, env) == addEligible(e, nbrs, sig, env)

updateEligible(e, node, nbrs, sig, env) ==
    IF e.eligible THEN AddNeighbor(nbrs, sig, e.address, env)
    ELSE RemoveNeighbor(nbrs, sig, nodeExternalAddress(node), env)
updateRefetch(node, nbrs, sig, env) == GetNeighbors(nbrs, sig, env)

update(node, nbrs, sig, env) ==
    updateEligible(nodeEligible(node, label), node, nbrs, sig, env)

deleteIfEligible(node, nbrs, sig, env) ==
    IF nodeEligible(node, label).eligible
    THEN RemoveNeighbor(nbrs, sig, nodeExternalAddress(node), env)
    ELSE NoOp(nbrs, sig)

delete(node, nbrs, sig, env) ==
    IF nodeLabeled(node, label)
    THEN RemoveNeighbor(nbrs, sig, nodeExternalAddress(node), env)
    ELSE NoOp(nbrs, sig)

\* the client calls a handler makes for a node, in order
Called(op, arg) == <<[op |-> op, arg |-> arg]>>
addCalled(e) == IF e.eligible THEN Called("add", e.address) ELSE <<>>
updateCalled(e, node) ==
    IF e.eligible THEN Called("add", e.address)
    ELSE Called("remove", nodeExternalAddress(node))
deleteCalled(node) ==
    IF nodeLabeled(node, label) THEN Called("remove", nodeExternalAddress(node))
    ELSE <<>>
HandlerCalled(h, node) ==
    CASE h = "add" -> addCalled(nodeEligible(node, label))
      [] h = "update" -> updateCalled(nodeEligible(node, label), node)
      [] h = "delete" -> deleteCalled(node)
Event(h, n, node) ==
    [kind |-> h, name |-> n, address |-> nodeExternalAddress(node),
     calls |-> HandlerCalled(h, node), net |-> 0, ok |-> TRUE]
Requests(res) == Calls(res.login) + Calls(res.req)

\* the device calls an operation made, added to the run's record
Counted(r, op, ip, res) ==
    [r EXCEPT !.allOk = @ /\ CallsSucceeded(res),
              !.deletes = IF op = "remove" /\ res.req.n > 0
                          THEN [@ EXCEPT ![ip] = @ + 1] ELSE @,
              !.creates = IF op = "add" /\ res.req.n > 0 THEN @ + 1 ELSE @]

----------------------------------------------------------------------------
(* main *)

\* strconv.Atoi on a string of characters: an optional sign, then digits
Digits == <<"0", "1", "2", "3", "4", "5", "6", "7", "8", "9">>
IsDigit(ch) == \E d \in 1..Len(Digits) : Digits[d] = ch
DigitValue(ch) == (CHOOSE d \in 1..Len(Digits) : Digits[d] = ch) - 1
RECURSIVE AtoiLoop(_, _, _)
AtoiLoop(str, i, n) ==
    IF i > Len(str) THEN n ELSE AtoiLoop(str, i + 1, 10 * n + DigitValue(str[i]))
Unsigned(str) == IF str # <<>> /\ str[1] \in {"+", "-"} THEN Tail(str) ELSE str
Atoi(str) ==
    IF Unsigned(str) = <<>> \/ \E i \in 1..Len(Unsigned(str)) : ~IsDigit(Unsigned(str)[i])
    THEN [err |-> TRUE, n |-> 0]
    ELSE [err |-> FALSE,
          n |-> IF str[1] = "-" THEN 0 - AtoiLoop(Unsigned(str), 1, 0)
                ELSE AtoiLoop(Unsigned(str), 1, 0)]

\* the environments the process is started in: each variable unset (the
\* empty string), malformed, or set to the value the deployment uses
NumberStrings(n) == {<<>>, <<"x">>, n}
Environs ==
    [A10_REMOTE_AS : NumberStrings(<<"5", "4", "3", "2", "1">>),
     A10_ADDRESS : {"", "host"},
     A10_USERNAME : {"", "user"},
     A10_PASSWORD : {"", "pass"},
     A10_AS : NumberStrings(<<"6", "5">>),
     NODES_LABEL_SELECTOR : {<<>>, <<"b">>, label, label \o <<"=", "c">>}]

ConfigErr(what) == [err |-> what, RemoteAS |-> 0, LabelSelector |-> <<>>]

ConfigGetAnySelector(env) ==
    IF env.A10_REMOTE_AS = <<>> THEN ConfigErr("A10_REMOTE_AS unset")
    ELSE IF Atoi(env.A10_REMOTE_AS).err THEN ConfigErr("A10_REMOTE_AS not a number")
    ELSE IF env.A10_ADDRESS = "" THEN ConfigErr("A10_ADDRESS unset")
    ELSE IF env.A10_USERNAME = "" THEN ConfigErr("A10_USERNAME unset")
    ELSE IF env.A10_PASSWORD = "" THEN ConfigErr("A10_PASSWORD unset")
    ELSE IF env.A10_AS = <<>> THEN ConfigErr("A10_AS unset")
    ELSE IF Atoi(env.A10_AS).err THEN ConfigErr("A10_AS not a number")
    ELSE [err |-> "", RemoteAS |-> Atoi(env.A10_REMOTE_AS).n,
          LabelSelector |-> env.NODES_LABEL_SELECTOR]

\* Config.Get: the first failing check is the error returned
ConfigGet(env) ==
    IF env.A10_REMOTE_AS = <<>> THEN ConfigErr("A10_REMOTE_AS unset")
    ELSE IF Atoi(env.A10_REMOTE_AS).err THEN ConfigErr("A10_REMOTE_AS not a number")
    ELSE IF env.A10_ADDRESS = "" THEN ConfigErr("A10_ADDRESS unset")
    ELSE IF env.A10_USERNAME = "" THEN ConfigErr("A10_USERNAME unset")
    ELSE IF env.A10_PASSWORD = "" THEN ConfigErr("A10_PASSWORD unset")
    ELSE IF env.A10_AS = <<>> THEN ConfigErr("A10_AS unset")
    ELSE IF Atoi(env.A10_AS).err THEN ConfigErr("A10_AS not a number")
    ELSE IF env.NODES_LABEL_SELECTOR = <<>> THEN ConfigErr("selector unset")
    ELSE IF Len(Split(env.NODES_LABEL_SELECTOR)) # 2 THEN ConfigErr("selector format")
    ELSE [err |-> "", RemoteAS |-> Atoi(env.A10_REMOTE_AS).n,
          LabelSelector |-> env.NODES_LABEL_SELECTOR]

\* config.Get and getKubernetesClient: either error is fatal
MainConfig ==
    /\ pc = "config"
    /\ \E clientOk \in BOOLEAN :
          pc' = IF ConfigGet(environ).err = "" /\ clientOk THEN "start" ELSE "fatal"
    /\ UNCHANGED <<lvars, environ, evars, qvars, avars, hvars, cluster, kubeNodes, a10Neighbors, pi,
                   run, rvars, cvars>>

MainGetNeighbors ==
    /\ pc = "start"
    /\ \E env \in ProgEnvs("get") :
        \E res \in {GetNeighbors(neighbors, signature, env)} :
          /\ neighbors' = res.neighbors
          /\ signature' = res.signature
          /\ run' = [run EXCEPT !.allOk = @ /\ CallsSucceeded(res),
                                !.fetches = @ + 1]
          /\ pc' = IF res.err = OpNil THEN "fetched" ELSE "fatal"
    /\ UNCHANGED <<lvars, environ, evars, qvars, hvars, cluster, kubeNodes, a10Neighbors, pi, rvars, cvars>>

MainGetNodes ==
    /\ pc = "fetched"
    /\ \E listOk \in BOOLEAN :
          IF listOk
          THEN kubeNodes' = GetNodes(cluster, kubeNodes) /\ pc' = "listed"
          ELSE kubeNodes' = kubeNodes /\ pc' = "fatal"
    /\ UNCHANGED <<lvars, environ, evars, qvars, avars, hvars, cluster, a10Neighbors, pi, run, rvars, cvars>>

\* removeExtraNeighbors: the copy, one iteration of the loop, the return
PruneCopy ==
    /\ pc = "listed"
    /\ a10Neighbors' = neighbors
    /\ pi' = 1
    /\ run' = [run EXCEPT !.init = neighbors]
    /\ pc' = "prune"
    /\ UNCHANGED <<lvars, environ, evars, qvars, avars, hvars, cluster, kubeNodes, rvars, cvars>>

IsExtraAlways(nodes, neighbor) == TRUE

\* !slices.Contains(kubeNodes.Nodes, neighbor)
IsExtra(nodes, neighbor) == ~Contains(nodes, neighbor)

PruneStep ==
    /\ pc = "prune"
    /\ pi <= Len(a10Neighbors)
    /\ LET neighbor == a10Neighbors[pi] IN
       IF IsExtra(kubeNodes, neighbor)
       THEN \E env \in ProgEnvs("remove") :
              \E res \in {RemoveNeighbor(neighbors, signature, neighbor, env)} :
              /\ neighbors' = res.neighbors
              /\ signature' = res.signature
              /\ run' = Counted(run, "remove", neighbor, res)
              /\ IF res.err = OpNil
                 THEN pi' = pi + 1 /\ pc' = pc
                 ELSE pi' = pi /\ pc' = "fatal"
       ELSE /\ pi' = pi + 1
            /\ UNCHANGED <<avars, run, pc>>
    /\ UNCHANGED <<lvars, environ, evars, qvars, hvars, cluster, kubeNodes, a10Neighbors, rvars, cvars>>

PruneReturn ==
    /\ pc = "prune"
    /\ pi > Len(a10Neighbors)
    /\ a10Neighbors' = <<>>
    /\ pi' = 0
    /\ pc' = "sync"
    /\ UNCHANGED <<lvars, environ, evars, qvars, avars, hvars, cluster, kubeNodes, run, rvars, cvars>>

----------------------------------------------------------------------------
(* StartInformer: the initial add events, then the watch *)

\* a handler ran: its effect on the A10 struct and on the run's record
Handled(op, ip, res, event) ==
    /\ neighbors' = res.neighbors
    /\ signature' = res.signature
    /\ run' = [Counted(run, op, ip, res) EXCEPT
                  !.events = IF pc = "watch" THEN @ + 1 ELSE @,
                  !.event = [event EXCEPT !.net = Requests(res),
                                          !.ok = res.err = OpNil]]

\* the operation a handler calls for a node, for the run's record
HandlerOp(h, node) ==
    IF h = "add" \/ (h = "update" /\ nodeEligible(node, label).eligible)
    THEN "add" ELSE "remove"

HandlerEnvs(h, node) == ProgEnvs(HandlerOp(h, node))

SyncAdd ==
    /\ pc = "sync"
    /\ \E n \in Present(cluster) \ run.synced :
        \E env \in HandlerEnvs("add", cluster[n]) :
        \E res \in {add(cluster[n], neighbors, signature, env)} :
          /\ neighbors' = res.neighbors
          /\ signature' = res.signature
          /\ run' = [Counted(run, "add", nodeExternalAddress(cluster[n]), res)
                        EXCEPT !.synced = @ \cup {n},
                               !.event = [Event("add", n, cluster[n]) EXCEPT
                                             !.net = Requests(res),
                                             !.ok = res.err = OpNil]]
    /\ UNCHANGED <<lvars, environ, evars, qvars, hvars, pc, cluster, kubeNodes, a10Neighbors, pi, rvars, cvars>>

\* every existing node has had its add event; kubeNodes and the record of
\* the pruning are not read again
InformerSynced ==
    /\ pc = "sync"
    /\ run.synced = Present(cluster)
    /\ pc' = "watch"
    /\ kubeNodes' = <<>>
    /\ run' = [NoRun EXCEPT !.allOk = run.allOk, !.fetches = run.fetches]
    /\ UNCHANGED <<lvars, environ, evars, qvars, avars, hvars, cluster, a10Neighbors, pi, rvars, cvars>>

EventAdd ==
    /\ pc = "watch" /\ run.events < MaxEvents
    /\ \E n \in Range(NodeNames) \ Present(cluster), node \in ProgNodes :
        \E env \in HandlerEnvs("add", node) :
          /\ cluster' = [cluster EXCEPT ![n] = node]
          /\ Handled("add", nodeExternalAddress(node),
                     add(node, neighbors, signature, env),
                     Event("add", n, node))
    /\ UNCHANGED <<lvars, environ, evars, qvars, hvars, pc, kubeNodes, a10Neighbors, pi, rvars, cvars>>

EventUpdate ==
    /\ pc = "watch" /\ run.events < MaxEvents
    /\ \E n \in Present(cluster), node \in ProgNodes :
        \E env \in HandlerEnvs("update", node) :
          /\ cluster' = [cluster EXCEPT ![n] = node]
          /\ Handled(HandlerOp("update", node), nodeExternalAddress(node),
                     update(node, neighbors, signature, env),
                     Event("update", n, node))
    /\ UNCHANGED <<lvars, environ, evars, qvars, hvars, pc, kubeNodes, a10Neighbors, pi, rvars, cvars>>

EventDelete ==
    /\ pc = "watch" /\ run.events < MaxEvents
    /\ \E n \in Present(cluster) :
        \E env \in HandlerEnvs("delete", cluster[n]) :
          /\ cluster' = [cluster EXCEPT ![n] = NoNode]
          /\ Handled("remove", nodeExternalAddress(cluster[n]),
                     delete(cluster[n], neighbors, signature, env),
                     Event("delete", n, cluster[n]))
    /\ UNCHANGED <<lvars, environ, evars, qvars, hvars, pc, kubeNodes, a10Neighbors, pi, rvars, cvars>>

Init ==
    /\ EIdle /\ AIdle /\ HIdle /\ RIdle /\ CIdle /\ QIdle /\ LIdle
    /\ environ \in Environs
    /\ pc = "config"
    /\ cluster \in Clusters
    /\ kubeNodes = <<>>
    /\ a10Neighbors = <<>>
    /\ pi = 0
    /\ run = NoRun

Next ==
    \/ MainConfig
    \/ MainGetNeighbors
    \/ MainGetNodes
    \/ PruneCopy
    \/ PruneStep
    \/ PruneReturn
    \/ SyncAdd
    \/ InformerSynced
    \/ EventAdd
    \/ EventUpdate
    \/ EventDelete

Spec == Init /\ [][Next]_vars

\* the desired set: the external addresses of the eligible current nodes
DesiredSet(c) ==
    {nodeExternalAddress(c[n]) :
        n \in {m \in Present(c) : nodeEligible(c[m], label).eligible}}

\* C1: in a run where every device call succeeds, after startup, after the
\* initial add event of every existing node and after each further add,
\* update or delete event, the mirrored set is the set of first ExternalIPs
\* of the current eligible nodes.
C1_Converged ==
    (pc = "watch" /\ run.allOk) => Range(neighbors) = DesiredSet(cluster)

\* C3: removeExtraNeighbors, every device call succeeding, issues exactly
\* one delete call for every mirrored address not in the desired list, none
\* for an address in both, no create call, and ends with the mirrored set
\* being the initial mirrored set intersected with the desired set.
C3_PruneExact ==
    (pc = "sync" /\ run.synced = {} /\ run.allOk) =>
        /\ \A a \in Addrs :
              run.deletes[a] =
                  IF a \in Range(run.init) \ Range(kubeNodes) THEN 1 ELSE 0
        /\ run.creates = 0
        /\ Range(neighbors) = Range(run.init) \cap Range(kubeNodes)

\* the step is the handling of an event of kind h for node n; for an update
\* n stays in the cluster and the other nodes are as they were
IsEventOf(h, n) ==
    /\ pc = "watch"
    /\ run'.events = run.events + 1
    /\ run'.event.kind = h /\ run'.event.name = n
IsUpdateOf(n) ==
    /\ IsEventOf("update", n)
    /\ cluster[n].present /\ cluster'[n].present
    /\ \A m \in Range(NodeNames) \ {n} : cluster'[m] = cluster[m]

\* the first ExternalIPs of the eligible nodes of c other than n
OtherEligible(c, n) ==
    {nodeExternalAddress(c[m]) :
        m \in {k \in Present(c) \ {n} : nodeEligible(c[k], label).eligible}}

\* C16: after an update event for an eligible node whose first ExternalIP
\* changed from A to B, A not being the address of another eligible node and
\* every device call succeeding, the mirrored set contains B and not A.
C16_UpdateStep ==
    \A n \in Range(NodeNames) :
        LET A == nodeExternalAddress(cluster[n])
            B == nodeExternalAddress(cluster'[n])
        IN (/\ IsUpdateOf(n)
            /\ nodeEligible(cluster'[n], label).eligible
            /\ A # "" /\ A # B
            /\ A \notin OtherEligible(cluster', n)
            /\ run'.allOk)
           => /\ Contains(neighbors', B)
              /\ ~Contains(neighbors', A)
C16_AddressChangeMoves == [][C16_UpdateStep]_vars

\* eligibility as the specification words it, for the configured selector
Eligible(node) ==
    /\ HasReadyTrue(node)
    /\ ~node.unschedulable
    /\ ExternalAddressOf(node) # ""
    /\ \E kv \in KeyValues(label) : LabelAt(node.labels, kv[1]) = kv[2]

\* what one AddNeighbor(a), or one RemoveNeighbor(a), leaves of the list:
\* when its device calls succeed, and when they may fail
Added(nbrs, a) == IF Contains(nbrs, a) THEN nbrs ELSE Append(nbrs, a)
Removed(nbrs, a) == IF Contains(nbrs, a) THEN DeleteAt(nbrs, Index(nbrs, a)) ELSE nbrs
AfterAdd(nbrs, a) == {nbrs, Added(nbrs, a)}
AfterRemove(nbrs, a) == {nbrs, Removed(nbrs, a)}

\* C17: on an update event the handler makes exactly one client call:
\* AddNeighbor(current address) when the node is eligible, otherwise
\* RemoveNeighbor(current first ExternalIP); the mirrored list changes only
\* as that one call can change it.
C17_UpdateStep ==
    \A n \in Range(NodeNames) :
        IsUpdateOf(n) =>
            LET node == cluster'[n]
                a == ExternalAddressOf(node)
            IN IF Eligible(node)
               THEN /\ run'.event.calls = Called("add", a)
                    /\ neighbors' \in AfterAdd(neighbors, a)
                    /\ run'.allOk => neighbors' = Added(neighbors, a)
                    /\ run'.deletes = run.deletes
               ELSE /\ run'.event.calls = Called("remove", a)
                    /\ neighbors' \in AfterRemove(neighbors, a)
                    /\ run'.allOk => neighbors' = Removed(neighbors, a)
                    /\ run'.creates = run.creates
C17_UpdateOneCall == [][C17_UpdateStep]_vars

C17_Witness ==
    /\ pc = "watch"
    /\ run.event.kind = "update"
    /\ run.event.calls = Called("remove", "a1")
    /\ run.deletes["a1"] = 1
    /\ neighbors = <<"a2">>

\* the node carries the configured label
Labeled(node) == \E kv \in KeyValues(label) : LabelAt(node.labels, kv[1]) = kv[2]

\* the step made no client call that reached the network and left the A10
\* value as it was
NothingDone ==
    /\ run'.event.net = 0
    /\ run'.deletes = run.deletes /\ run'.creates = run.creates
    /\ neighbors' = neighbors /\ signature' = signature

\* C18: on a delete event the handler calls RemoveNeighbor(address) iff the
\* deleted node, as last observed, carries the configured label, whatever
\* its readiness and cordon state; for a node without the label it makes no
\* network call and leaves the mirrored list unchanged.
C18_DeleteStep ==
    \A n \in Range(NodeNames) :
        IsEventOf("delete", n) =>
            LET node == cluster[n]
                a == ExternalAddressOf(node)
            IN IF Labeled(node)
               THEN /\ run'.event.calls = Called("remove", a)
                    /\ neighbors' \in AfterRemove(neighbors, a)
                    /\ run'.allOk => neighbors' = Removed(neighbors, a)
                    /\ run'.creates = run.creates
               ELSE /\ run'.event.calls = <<>>
                    /\ NothingDone
C18_DeleteIffLabeled == [][C18_DeleteStep]_vars

\* a node without the label was deleted while its address was mirrored
C18_Witness ==
    /\ pc = "watch"
    /\ run.event.kind = "delete"
    /\ run.event.calls = <<>>
    /\ run.event.address = "a1"
    /\ Contains(neighbors, "a1")

\* the step is the add event of node n: one of the initial list or a later one
IsAddOf(n) ==
    /\ run'.event.kind = "add" /\ run'.event.name = n
    /\ \/ pc = "watch" /\ run'.events = run.events + 1
       \/ pc = "sync" /\ n \notin run.synced /\ n \in run'.synced

\* C19: on an add event the handler calls AddNeighbor(address) iff the node
\* is eligible; for an ineligible node it makes no network call, never calls
\* RemoveNeighbor and leaves the mirrored list unchanged.
C19_AddStep ==
    \A n \in Range(NodeNames) :
        IsAddOf(n) =>
            LET node == cluster'[n]
                a == ExternalAddressOf(node)
            IN IF Eligible(node)
               THEN /\ run'.event.calls = Called("add", a)
                    /\ neighbors' \in AfterAdd(neighbors, a)
                    /\ run'.allOk => neighbors' = Added(neighbors, a)
                    /\ run'.deletes = run.deletes
               ELSE /\ run'.event.calls = <<>>
                    /\ NothingDone
C19_AddIffEligible == [][C19_AddStep]_vars

\* an ineligible node was added while its address was mirrored
C19_Witness ==
    /\ pc = "watch"
    /\ run.event.kind = "add"
    /\ run.event.calls = <<>>
    /\ run.event.address = "a1"
    /\ Contains(neighbors, "a1")

\* C22: an update event for an ineligible node without an ExternalIP entry
\* calls RemoveNeighbor(""), which makes no network call and leaves the
\* mirrored list unchanged; the empty string is never mirrored while events
\* are processed and AddNeighbor is never called with it.
C22_UpdateStep ==
    /\ pc' \in {"sync", "watch"} =>
          /\ ~Contains(neighbors', "")
          /\ run'.event.calls # Called("add", "")
    /\ \A n \in Range(NodeNames) :
          (IsUpdateOf(n) /\ ~Eligible(cluster'[n]) /\ ~HasExternalIP(cluster'[n])) =>
              /\ run'.event.calls = Called("remove", "")
              /\ NothingDone
C22_EmptyRemovalNoOp == [][C22_UpdateStep]_vars

C22_Witness ==
    /\ pc = "watch"
    /\ run.event.kind = "update"
    /\ run.event.calls = Called("remove", "")
    /\ ~HasExternalIP(cluster[run.event.name])
    /\ run.event.net = 0
    /\ neighbors # <<>>

\* the list after the one client call a handler made
AfterCalls(nbrs, calls) ==
    {Added(nbrs, c.arg) : c \in {d \in Range(calls) : d.op = "add"}}
        \cup {Removed(nbrs, c.arg) : c \in {d \in Range(calls) : d.op = "remove"}}

\* C24: GetNeighbors is invoked exactly once, as the first device operation
\* of main (a process that ends on its configuration never invokes it):
\* before it no delete or create call has been made and no event handled,
\* after it the count stays at one; from then on the mirrored list changes only as
\* RemoveNeighbor of the pruned address, or the AddNeighbor or RemoveNeighbor
\* call of the event's handler, changes it.
C24_Step ==
    /\ run.fetches = 0 =>
          /\ pc \in {"config", "start"} /\ run.event = NoEvent /\ run.creates = 0
          /\ \A a \in DOMAIN run.deletes : run.deletes[a] = 0
    /\ pc \notin {"config", "start"} => run.fetches = 1 /\ run'.fetches = 1
    /\ pc' \notin {"config", "start", "fatal"} => run'.fetches = 1
    /\ run'.fetches <= 1
    /\ (pc = "prune" /\ neighbors' # neighbors) =>
          neighbors' = Removed(neighbors, a10Neighbors[pi])
    /\ (pc \in {"sync", "watch"} /\ neighbors' # neighbors) =>
          neighbors' \in AfterCalls(neighbors, run'.event.calls)
C24_FetchOnce == [][C24_Step]_vars

\* two events changed the mirrored list after the one fetch
C24_Witness ==
    /\ pc = "watch" /\ run.fetches = 1 /\ run.events = 2
    /\ run.creates = 1 /\ run.deletes["a1"] = 1
    /\ run.init = <<>> /\ neighbors = <<>>

\* a configuration as the deployment documents it: every variable set, the
\* two AS numbers decimal, the selector of the form key=value
Numeral(str) == str # <<>> /\ \A i \in 1..Len(str) : IsDigit(str[i])
ValidEnviron(env) ==
    /\ Numeral(env.A10_REMOTE_AS) /\ Numeral(env.A10_AS)
    /\ env.A10_ADDRESS # "" /\ env.A10_USERNAME # "" /\ env.A10_PASSWORD # ""
    /\ KeyValues(env.NODES_LABEL_SELECTOR) # {}

\* C25: a startup step that returns an error ends the process: nothing
\* happens after the fatal exit, no event has been handled when it is
\* reached, and the informer starts only from a pruning whose calls all
\* returned nil; an invalid configuration ends the process in its first
\* step, with no request sent to the device; a configuration that is
\* accepted yields the selector and remote AS the program runs with.
C25_Step ==
    /\ pc # "fatal"
    /\ pc' = "fatal" =>
          /\ run'.event = NoEvent /\ run'.events = 0 /\ run'.synced = {}
          /\ pc \in {"config", "start", "fetched", "prune"}
    /\ (pc = "config" /\ ~ValidEnviron(environ)) =>
          /\ pc' = "fatal"
          /\ run' = NoRun /\ signature' = "" /\ neighbors' = <<>>
    /\ (pc = "config" /\ pc' = "start") =>
          /\ ConfigGet(environ).LabelSelector = label
          /\ ConfigGet(environ).RemoteAS = remoteAS
    /\ (pc \in {"start", "prune"} /\ ~run'.allOk) => pc' = "fatal"
    /\ (pc = "start" /\ pc' = "fatal") => (~run'.allOk /\ neighbors' = <<>>)
    /\ pc' \in {"sync", "watch"} => run'.allOk \/ pc \in {"sync", "watch"}
C25_StartupErrorsFatal == [][C25_Step]_vars

\* the process ended on a selector that is not of the form key=value
C25_Witness ==
    /\ pc = "fatal" /\ run = NoRun /\ signature = ""
    /\ environ.NODES_LABEL_SELECTOR = label \o <<"=", "c">>
    /\ environ.A10_ADDRESS # "" /\ Numeral(environ.A10_AS)

\* the process ended on a failed delete of removeExtraNeighbors
C25_PruneFatal ==
    /\ pc = "fatal" /\ run.fetches = 1 /\ ~run.allOk
    /\ \E a \in Addrs : run.deletes[a] = 1

\* the create and delete requests issued so far
Issued(r) == r.creates + r.deletes["a1"] + r.deletes["a2"] + r.deletes[""]

\* C26: an event whose client call fails (its login or its request
\* exhausted the retries) leaves the watch running and the mirrored list
\* unchanged, after one client call that made at most one login and at
\* most one create or delete request; the events delivered after a failed
\* one are handled as any other: the event is counted, its handler makes
\* its client call and, when that returns nil, the list is changed as
\* that call changes it.
C26_Step ==
    pc = "watch" =>
        /\ pc' = "watch"
        /\ run'.events = run.events + 1
        /\ ~run'.event.ok =>
              /\ neighbors' = neighbors
              /\ Len(run'.event.calls) = 1
              /\ run'.event.net \in {1, 2}
              /\ Issued(run') - Issued(run) = run'.event.net - 1
        /\ (~run.event.ok /\ run'.event.ok) =>
              IF run'.event.calls = <<>>
              THEN neighbors' = neighbors /\ run'.event.net = 0
              ELSE neighbors' \in AfterCalls(neighbors, run'.event.calls)
C26_FailedEventAbandoned == [][C26_Step]_vars

\* two events each issued a create request, the first of which failed and
\* the second of which mirrored the address
C26_Witness ==
    /\ pc = "watch" /\ run.events = 2 /\ run.creates = 2
    /\ run.event.ok /\ run.event.net = 2
    /\ neighbors = <<"a1">>

\* the event before this step was for node n and its client call op(a)
\* returned an error
Missed(n, op, a) ==
    /\ pc = "watch"
    /\ run.event.name = n /\ ~run.event.ok
    /\ run.event.calls = Called(op, a)

\* this step is an update event for node n, observed with address a, whose
\* client call returned nil
Retried(n, a) ==
    /\ IsUpdateOf(n)
    /\ ExternalAddressOf(cluster'[n]) = a
    /\ run'.event.ok

\* C27: when the client call for node n's address failed on one event and
\* the next event for n, with the same address, finds n still eligible
\* (resp. ineligible) and its device calls succeed, the create (resp.
\* delete) request is issued again and the address is mirrored (resp. no
\* longer mirrored) afterwards.
C27_Step ==
    \A n \in Range(NodeNames), a \in Addrs :
        /\ (Missed(n, "add", a) /\ Retried(n, a) /\ Eligible(cluster'[n])) =>
              /\ run'.creates = run.creates + 1
              /\ Contains(neighbors', a)
        /\ (Missed(n, "remove", a) /\ Retried(n, a) /\ ~Eligible(cluster'[n])) =>
              /\ run'.deletes[a] = run.deletes[a] + 1
              /\ ~Contains(neighbors', a)
C27_MissedCorrectionHeals == [][C27_Step]_vars

\* list L without its entries before position p that are not desired
RECURSIVE WithoutExtrasBefore(_, _, _, _)
WithoutExtrasBefore(L, desired, p, i) ==
    IF i > Len(L) THEN <<>>
    ELSE (IF i < p /\ ~Contains(desired, L[i]) THEN <<>> ELSE <<L[i]>>)
            \o WithoutExtrasBefore(L, desired, p, i + 1)

\* the extras equal to a among the first p - 1 entries of L
ExtrasBefore(L, desired, p, a) ==
    Cardinality({j \in 1..(p - 1) : L[j] = a /\ ~Contains(desired, a)})

\* removeExtraNeighbors returned the error of the removal at position pi
PruneFailed == pc = "fatal" /\ pi >= 1

\* C35: removeExtraNeighbors stops at the first removal that fails: the
\* entry it failed on is an extra, the mirrored list is the fetched list
\* without the extras before it (the failing extra and everything after
\* it are still mirrored), each extra before it got its one delete call,
\* the failing extra at most the one that failed and the later ones none,
\* and no create call was made.
C35_PruneStopsAtFirstFailure ==
    PruneFailed =>
        /\ ~Contains(kubeNodes, a10Neighbors[pi])
        /\ neighbors = WithoutExtrasBefore(a10Neighbors, kubeNodes, pi, 1)
        /\ \A a \in DOMAIN run.deletes :
              run.deletes[a] - ExtrasBefore(a10Neighbors, kubeNodes, pi, a)
                  \in (IF a = a10Neighbors[pi] THEN {0, 1} ELSE {0})
        /\ run.creates = 0

\* the second of two extras failed after the first had been removed
C35_Witness ==
    /\ PruneFailed /\ pi = 2
    /\ a10Neighbors = <<"a1", "a2">> /\ kubeNodes = <<>>
    /\ neighbors = <<"a2">>
    /\ run.deletes["a1"] = 1 /\ run.deletes["a2"] = 1

\* the list holds each address at most once
DupFree(nbrs) == \A i, j \in 1..Len(nbrs) : nbrs[i] = nbrs[j] => i = j

\* C36: nothing is mirrored before the startup fetch, and once the fetch
\* has stored a list without repeated addresses every later step (the
\* pruning, the initial adds, the events of the watch), with its device
\* calls succeeding or failing, leaves the list without repeated addresses.
C36_Step ==
    /\ pc \in {"config", "start"} => neighbors = <<>>
    /\ (pc \notin {"config", "start"} /\ DupFree(neighbors)) => DupFree(neighbors')
C36_NoDuplicates == [][C36_Step]_vars

\* an add event for an address mirrored already left two distinct entries
C36_Witness ==
    /\ pc = "watch" /\ run.events = 2
    /\ run.event.calls = Called("add", "a1") /\ run.event.net = 0
    /\ Len(neighbors) = 2 /\ DupFree(neighbors) /\ Contains(neighbors, "a1")

----------------------------------------------------------------------------
(* Specification SpecRange: the earlier a10.go, whose removeExtraNeighbors  *)
(* ranges over a10.neighbors itself while RemoveNeighbor deletes from it.   *)
(* The range statement reads the slice header once (array rarr, its length  *)
(* at entry); a10.neighbors is rarr[1..rlen].  slices.Delete shifts the     *)
(* tail down in place and, from Go 1.22 on, zeroes the vacated element;     *)
(* Go 1.21 leaves it as it was.                                             *)

RangeAddrs == Addrs \cup {"a3"}

\* a10.neighbors as a slice of the backing array
Slice(arr, len) == SubSeq(arr, 1, len)

\* slices.Delete(s, idx, idx+1) on the backing array
DeleteInPlace(arr, len, idx, zero) ==
    [k \in 1..Len(arr) |->
        IF k >= idx /\ k < len THEN arr[k + 1]
        ELSE IF k = len /\ zero THEN ""
        ELSE arr[k]]

\* how one RemoveNeighbor of the earlier client ends once it has found the
\* address: login fails, the DELETE fails, or both succeed
RemoveOutcomes == {"login", "request", "ok"}

RangeStep ==
    /\ pc = "range"
    /\ rstate.status = "loop"
    /\ ri <= Len(rarr)
    /\ LET neighbor == rarr[ri] IN
       IF neighbor \notin rdesired /\ Contains(Slice(rarr, rlen), neighbor)
       THEN \E o \in RemoveOutcomes :
              /\ rcalls' = IF o = "login" THEN rcalls
                           ELSE [rcalls EXCEPT ![neighbor] = @ + 1]
              /\ IF o = "ok"
                 THEN /\ rarr' = DeleteInPlace(rarr, rlen,
                                        Index(Slice(rarr, rlen), neighbor), rstate.zero)
                      /\ rlen' = rlen - 1
                      /\ ri' = ri + 1
                      /\ rstate' = rstate
                 ELSE /\ rstate' = [rstate EXCEPT !.status = "failed", !.allOk = FALSE]
                      /\ UNCHANGED <<rarr, rlen, ri>>
       ELSE /\ ri' = ri + 1
            /\ UNCHANGED <<rarr, rlen, rcalls, rstate>>
    /\ UNCHANGED <<lvars, environ, evars, qvars, avars, hvars, pvars, cvars, rdesired>>

RangeReturn ==
    /\ pc = "range"
    /\ rstate.status = "loop"
    /\ ri > Len(rarr)
    /\ rstate' = [rstate EXCEPT !.status = "done"]
    /\ UNCHANGED <<lvars, environ, evars, qvars, avars, hvars, pvars, cvars,
                   rarr, rlen, ri, rdesired, rcalls>>

InitRange ==
    /\ EIdle /\ AIdle /\ HIdle /\ PIdle("range") /\ CIdle /\ QIdle /\ LIdle /\ XIdle
    /\ rarr \in SeqsUpTo(RangeAddrs, MaxRange)
    /\ rlen = Len(rarr)
    /\ ri = 1
    /\ rdesired \in SUBSET RangeAddrs
    /\ rcalls = [a \in RangeAddrs |-> 0]
    /\ \E zero \in BOOLEAN :
          rstate = [zero |-> zero, status |-> "loop", init |-> rarr, allOk |-> TRUE]

NextRange == RangeStep \/ RangeReturn
SpecRange == InitRange /\ [][NextRange]_vars

\* C4: in that version every extra address is still visited exactly once:
\* of a mirrored list (here one without repeated addresses) holding two or
\* more addresses absent from the desired list, each gets exactly one delete
\* call and is absent from the mirrored list when the function returns.
C4_EveryExtraOnce ==
    LET extras == Range(rstate.init) \ rdesired IN
    (/\ pc = "range" /\ rstate.status = "done" /\ rstate.allOk
     /\ Cardinality(Range(rstate.init)) = Len(rstate.init)
     /\ Cardinality(extras) >= 2)
    => \A a \in extras :
         /\ rcalls[a] = 1
         /\ ~Contains(Slice(rarr, rlen), a)

----------------------------------------------------------------------------
(* Specification SpecConc: AddNeighbor and RemoveNeighbor called from two   *)
(* goroutines at once on one A10 value.  a.mu is held only inside           *)
(* containsNeighbor (RLock) and around the update of a.neighbors (Lock);    *)
(* login and the callers of makeRequest read and write a.signature without  *)
(* it.  Each goroutine makes one call; a panic ends the process.            *)

Callers == {1, 2}
ConcOps == {"add", "remove"}

\* a string whose pointer and length words come from two different writes
Torn == "torn"

Local(op, ip) ==
    [op |-> op, ip |-> ip, sig |-> "", auth |-> "-", err |-> OpNil, calls |-> 0,
     raced |-> FALSE, snap |-> <<>>]

Alive == \A g \in Callers : gpc[g] # "panicked"

\* sync.RWMutex
CanRLock(m) == m.writer = 0
CanLockAlways(m) == TRUE
CanLock(m) == m.writer = 0 /\ m.readers = {}

\* positions whose next step reads, or writes, a.signature
ReadsSignature(g) == gpc[g] \in {"login", "request"}
WritesSignature(g) == gpc[g] = "loginstore"
PendingWriters(g) == {h \in Callers \ {g} : WritesSignature(h)}

\* what a read of a.signature yields: the stored value or, while another
\* goroutine is writing it, that goroutine's value or a mix of the two
SignatureRead(g) ==
    {signature} \cup
    UNION {{gloc[h].sig, Torn} : h \in {k \in PendingWriters(g) : gloc[k].sig # signature}}

\* what a.signature holds after goroutine g wrote it: its value or, when
\* another write overlapped, the other value or a mix of the two
SignatureWritten(g) ==
    {gloc[g].sig} \cup
    (IF gloc[g].raced /\ signature # gloc[g].sig THEN {signature, Torn} ELSE {}) \cup
    (IF \E h \in PendingWriters(g) : gloc[h].sig # gloc[g].sig THEN {Torn} ELSE {})

\* the fast paths of AddNeighbor and RemoveNeighbor
FastPath(op, found) == IF op = "add" THEN found ELSE ~found

\* slices.Delete(s, -1, 0) fails its bounds check
DeletePanics(op, nbrs, ip) == op = "remove" /\ Index(nbrs, ip) = 0

\* the new value of a.neighbors computed from the one that was loaded
Mutated(op, nbrs, ip) ==
    IF op = "add" THEN Append(nbrs, ip) ELSE DeleteAt(nbrs, Index(nbrs, ip))

\* containsNeighbor: a.mu.RLock()
RLock(g) ==
    /\ pc = "conc" /\ Alive
    /\ gpc[g] = "called"
    /\ CanRLock(mu)
    /\ mu' = [mu EXCEPT !.readers = @ \cup {g}]
    /\ gpc' = [gpc EXCEPT ![g] = "rlocked"]
    /\ UNCHANGED <<lvars, environ, evars, qvars, avars, hvars, pvars, rvars, gloc, cinit>>

\* containsNeighbor: slices.Contains and the deferred RUnlock, then the
\* caller's branch on the result
ContainsReturn(g) ==
    /\ pc = "conc" /\ Alive
    /\ gpc[g] = "rlocked"
    /\ mu' = [mu EXCEPT !.readers = @ \ {g}]
    /\ gpc' = [gpc EXCEPT ![g] =
                  IF FastPath(gloc[g].op, containsNeighbor(neighbors, gloc[g].ip))
                  THEN "returned" ELSE "login"]
    /\ UNCHANGED <<lvars, environ, evars, qvars, avars, hvars, pvars, rvars, gloc, cinit>>

\* login: a.signature is read for the header, makeRequest, json.Unmarshal
Login(g) ==
    /\ pc = "conc" /\ Alive
    /\ gpc[g] = "login"
    /\ \E auth \in SignatureRead(g), script \in ProgScripts({SigBody(s) : s \in Sigs}) :
        \E l \in {loginStore(auth, makeRequest(NewRequest(TRUE), auth, script))} :
          IF l.err # Nil
          THEN /\ gpc' = [gpc EXCEPT ![g] = "returned"]
               /\ gloc' = [gloc EXCEPT ![g].err = OpErr("login", l.err),
                                       ![g].auth = auth]
          ELSE /\ gpc' = [gpc EXCEPT ![g] = "loginstore"]
               /\ gloc' = [gloc EXCEPT ![g].sig = l.signature, ![g].auth = auth]
    /\ UNCHANGED <<lvars, environ, evars, qvars, avars, hvars, pvars, rvars, mu, cinit>>

\* login: a.signature = response.AuthResponse.Signature
LoginStore(g) ==
    /\ pc = "conc" /\ Alive
    /\ gpc[g] = "loginstore"
    /\ signature' \in SignatureWritten(g)
    /\ gpc' = [gpc EXCEPT ![g] = "request"]
    /\ gloc' = [h \in Callers |->
                  IF h = g THEN [gloc[h] EXCEPT !.raced = FALSE]
                  ELSE IF WritesSignature(h) THEN [gloc[h] EXCEPT !.raced = TRUE]
                  ELSE gloc[h]]
    /\ UNCHANGED <<lvars, environ, evars, qvars, neighbors, hvars, pvars, rvars, mu, cinit>>

\* a.makeRequest(req, a.signature) of AddNeighbor and RemoveNeighbor
Request(g) ==
    /\ pc = "conc" /\ Alive
    /\ gpc[g] = "request"
    /\ \E auth \in SignatureRead(g), script \in ProgScripts(AckBodies) :
        \E r \in {makeRequest(NewRequest(HasBody(gloc[g].op)), auth, script)} :
          /\ gpc' = [gpc EXCEPT ![g] = IF r.err # Nil THEN "returned" ELSE "lock"]
          /\ gloc' = [gloc EXCEPT
                         ![g].err = IF r.err # Nil THEN OpErr("request", r.err) ELSE @,
                         ![g].auth = auth,
                         ![g].calls = @ + 1]
    /\ UNCHANGED <<lvars, environ, evars, qvars, avars, hvars, pvars, rvars, mu, cinit>>

\* a.mu.Lock()
Lock(g) ==
    /\ pc = "conc" /\ Alive
    /\ gpc[g] = "lock"
    /\ CanLock(mu)
    /\ mu' = [mu EXCEPT !.writer = g]
    /\ gpc' = [gpc EXCEPT ![g] = "locked"]
    /\ UNCHANGED <<lvars, environ, evars, qvars, avars, hvars, pvars, rvars, gloc, cinit>>

\* the read of a.neighbors by append / slices.Index
Load(g) ==
    /\ pc = "conc" /\ Alive
    /\ gpc[g] = "locked"
    /\ gloc' = [gloc EXCEPT ![g].snap = neighbors]
    /\ gpc' = [gpc EXCEPT ![g] = "loaded"]
    /\ UNCHANGED <<lvars, environ, evars, qvars, avars, hvars, pvars, rvars, mu, cinit>>

\* the assignment to a.neighbors, the deferred Unlock and the return
Store(g) ==
    /\ pc = "conc" /\ Alive
    /\ gpc[g] = "loaded"
    /\ IF DeletePanics(gloc[g].op, gloc[g].snap, gloc[g].ip)
       THEN /\ gpc' = [gpc EXCEPT ![g] = "panicked"]
            /\ UNCHANGED neighbors
       ELSE /\ gpc' = [gpc EXCEPT ![g] = "returned"]
            /\ neighbors' = Mutated(gloc[g].op, gloc[g].snap, gloc[g].ip)
    /\ gloc' = [gloc EXCEPT ![g].snap = <<>>]
    /\ mu' = [mu EXCEPT !.writer = IF @ = g THEN 0 ELSE @]
    /\ UNCHANGED <<lvars, environ, evars, qvars, signature, hvars, pvars, rvars, cinit>>

InitConc ==
    /\ EIdle /\ HIdle /\ PIdle("conc") /\ RIdle /\ QIdle /\ LIdle /\ XIdle
    /\ neighbors \in SeqsUpTo(RangeAddrs, MaxFetch)
    /\ signature = "s1"
    /\ mu = NoLock
    /\ gpc = [g \in Callers |-> "called"]
    /\ gloc \in [Callers -> {Local(op, ip) : op \in ConcOps, ip \in Addrs}]
    /\ cinit = neighbors

NextConc ==
    \E g \in Callers :
        \/ RLock(g)
        \/ ContainsReturn(g)
        \/ Login(g)
        \/ LoginStore(g)
        \/ Request(g)
        \/ Lock(g)
        \/ Load(g)
        \/ Store(g)

SpecConc == InitConc /\ [][NextConc]_vars

AllReturned == pc = "conc" /\ \A g \in Callers : gpc[g] = "returned"
SameCall(op) ==
    /\ pc = "conc"
    /\ \A g \in Callers : gloc[g].op = op
    /\ gloc[1].ip = gloc[2].ip

\* C12: two concurrent AddNeighbor(a) calls, a absent at first: in every
\* state a is in the mirrored list at most once, and exactly once when both
\* have returned nil.
C12_ConcurrentAddOnce ==
    (SameCall("add") /\ ~Contains(cinit, gloc[1].ip)) =>
        /\ Count(neighbors, gloc[1].ip) <= 1
        /\ (AllReturned /\ \A g \in Callers : gloc[g].err = OpNil) =>
              Count(neighbors, gloc[1].ip) = 1

\* C13: two concurrent RemoveNeighbor(a) calls, a mirrored once at first:
\* while no device call has failed at most one of them has issued a device
\* delete call, and slices.Index never yields -1 at the delete step (the
\* deletion never panics).
C13_ConcurrentRemoveAtomic ==
    (SameCall("remove") /\ Count(cinit, gloc[1].ip) = 1) =>
        /\ (\A g \in Callers : gloc[g].err = OpNil) =>
              gloc[1].calls + gloc[2].calls <= 1
        /\ \A g \in Callers :
              gpc[g] = "loaded" => ~DeletePanics("remove", gloc[g].snap, gloc[g].ip)
        /\ Alive

\* C14: whenever a goroutine is about to write a.signature while another is
\* about to read or write it, the writer holds a.mu.
C14_SignatureUnderMutex ==
    pc = "conc" =>
        \A g \in Callers : \A h \in Callers \ {g} :
            (WritesSignature(g) /\ (ReadsSignature(h) \/ WritesSignature(h)))
                => mu.writer = g

\* the same two calls made one after the other, every device call succeeding
OkEnv == [login |-> <<Ok(SigBody("s1")), Pad, Pad>>, req |-> <<Ok(AckBody), Pad, Pad>>]
Sequential(nbrs, first, second) ==
    Op(second.op, Op(first.op, nbrs, "s1", first.ip, OkEnv).neighbors, "s1",
       second.ip, OkEnv).neighbors

\* C15: concurrent AddNeighbor/RemoveNeighbor calls on different addresses
\* whose device calls all succeed leave the mirrored list that the same calls
\* leave in one of their sequential orders: an added address is mirrored
\* once, a removed address (mirrored at most once before) is absent, and the
\* entries of other addresses are as they were.
C15_DifferentAddressesSerial ==
    (AllReturned /\ gloc[1].ip # gloc[2].ip /\ \A g \in Callers : gloc[g].err = OpNil)
    => /\ neighbors \in {Sequential(cinit, gloc[1], gloc[2]),
                         Sequential(cinit, gloc[2], gloc[1])}
       /\ \A g \in Callers :
             Count(cinit, gloc[g].ip) <= 1 =>
                Count(neighbors, gloc[g].ip) = IF gloc[g].op = "add" THEN 1 ELSE 0
       /\ SelectSeq(neighbors, LAMBDA a : \A g \in Callers : a # gloc[g].ip)
             = SelectSeq(cinit, LAMBDA a : \A g \in Callers : a # gloc[g].ip)

C15_Witness ==
    /\ AllReturned
    /\ gloc[1].op = "add" /\ gloc[2].op = "remove"
    /\ gloc[1].ip # gloc[2].ip
    /\ \A g \in Callers : gloc[g].err = OpNil /\ gloc[g].calls = 1
    /\ cinit = <<"a3", gloc[2].ip>>
    /\ neighbors = <<"a3", gloc[1].ip>>

----------------------------------------------------------------------------
(* Specification SpecInformer: the informer's listener.  The watch queues  *)
(* a notification for every event while the listener goroutine takes them  *)
(* in order and calls the registered handler; a handler starts (the        *)
(* eligibility of the node picks its client call), runs the head of the    *)
(* call (membership check and login), then its tail (the request and the   *)
(* update of a.neighbors) and returns.                                     *)

MaxDelivered == 3

Delivered == returned + Len(handling) + Len(queue)
Notification(h, n, node) ==
    [seq |-> Delivered + 1, kind |-> h, name |-> n, node |-> node]

DeliverAdd ==
    /\ pc = "informer" /\ Delivered < MaxDelivered
    /\ \E n \in Range(NodeNames) \ Present(cluster), node \in ProgNodes :
          /\ cluster' = [cluster EXCEPT ![n] = node]
          /\ queue' = Append(queue, Notification("add", n, node))
    /\ UNCHANGED <<lvars, environ, evars, avars, hvars, pc, kubeNodes, a10Neighbors, pi, run,
                   rvars, cvars, handling, returned>>

DeliverUpdate ==
    /\ pc = "informer" /\ Delivered < MaxDelivered
    /\ \E n \in Present(cluster), node \in ProgNodes :
          /\ cluster' = [cluster EXCEPT ![n] = node]
          /\ queue' = Append(queue, Notification("update", n, node))
    /\ UNCHANGED <<lvars, environ, evars, avars, hvars, pc, kubeNodes, a10Neighbors, pi, run,
                   rvars, cvars, handling, returned>>

DeliverDelete ==
    /\ pc = "informer" /\ Delivered < MaxDelivered
    /\ \E n \in Present(cluster) :
          /\ cluster' = [cluster EXCEPT ![n] = NoNode]
          /\ queue' = Append(queue, Notification("delete", n, cluster[n]))
    /\ UNCHANGED <<lvars, environ, evars, avars, hvars, pc, kubeNodes, a10Neighbors, pi, run,
                   rvars, cvars, handling, returned>>

\* the listener calls the next handler when the one before has returned
ListenerIdleAlways(h) == TRUE

ListenerIdle(h) == h = <<>>

Running(e, c) == [seq |-> e.seq, op |-> c.op, ip |-> c.arg, stage |-> "head"]

\* the handler of the oldest notification starts: it returns at once when
\* the node calls for no client operation
HandlerStart ==
    /\ pc = "informer" /\ queue # <<>>
    /\ ListenerIdle(handling)
    /\ \E calls \in {HandlerCalled(Head(queue).kind, Head(queue).node)} :
          IF calls = <<>>
          THEN /\ returned' = returned + 1
               /\ UNCHANGED handling
          ELSE /\ handling' = Append(handling, Running(Head(queue), calls[1]))
               /\ UNCHANGED returned
    /\ queue' = Tail(queue)
    /\ UNCHANGED <<lvars, environ, evars, avars, hvars, pvars, rvars, cvars>>

\* containsNeighbor and login of the client call of a running handler
HandlerHead ==
    /\ pc = "informer"
    /\ \E i \in DOMAIN handling :
        /\ handling[i].stage = "head"
        /\ \E script \in ProgScripts({SigBody("s1")}) :
           \E h \in {OpHead(handling[i].op, neighbors, signature, handling[i].ip, script)} :
              /\ signature' = h.signature
              /\ IF h.done
                 THEN /\ handling' = DeleteAt(handling, i)
                      /\ returned' = returned + 1
                 ELSE /\ handling' = [handling EXCEPT ![i].stage = "request"]
                      /\ UNCHANGED returned
    /\ UNCHANGED <<lvars, environ, evars, neighbors, hvars, pvars, rvars, cvars, queue>>

\* the request of the client call and the handler's return
HandlerTail ==
    /\ pc = "informer"
    /\ \E i \in DOMAIN handling :
        /\ handling[i].stage = "request"
        /\ \E script \in ProgScripts(ReqBodies(handling[i].op)) :
           \E t \in {OpTail(handling[i].op, neighbors, signature, handling[i].ip, script)} :
              /\ neighbors' = t.neighbors
              /\ handling' = DeleteAt(handling, i)
              /\ returned' = returned + 1
    /\ UNCHANGED <<lvars, environ, evars, signature, hvars, pvars, rvars, cvars, queue>>

InitInformer ==
    /\ EIdle /\ HIdle /\ RIdle /\ CIdle /\ QIdle /\ LIdle /\ XIdle
    /\ neighbors = <<>> /\ signature = "s1"
    /\ pc = "informer"
    /\ cluster = [n \in Range(NodeNames) |-> NoNode]
    /\ kubeNodes = <<>> /\ a10Neighbors = <<>> /\ pi = 0 /\ run = NoRun

NextInformer ==
    \/ DeliverAdd
    \/ DeliverUpdate
    \/ DeliverDelete
    \/ HandlerStart
    \/ HandlerHead
    \/ HandlerTail

SpecInformer == InitInformer /\ [][NextInformer]_vars

\* C23: events are handled one at a time in delivery order: at most one
\* handler is running, it is the handler of the oldest event whose handler
\* has not returned, and the events still queued are the later ones in the
\* order of their delivery; so no handler starts or reaches the device
\* before the handlers of all earlier events have returned
C23_OneHandlerInOrder ==
    pc = "informer" =>
        /\ Len(handling) <= 1
        /\ \A i \in DOMAIN handling : handling[i].seq = returned + 1
        /\ \A i \in DOMAIN queue : queue[i].seq = returned + Len(handling) + i

\* a handler is between its login and its request while a later event waits
C23_Witness ==
    /\ pc = "informer" /\ returned >= 1
    /\ Len(handling) = 1 /\ handling[1].stage = "request"
    /\ queue # <<>>

----------------------------------------------------------------------------
(* Specification SpecMain: main as it is written, with the A10 value it    *)
(* builds.  The composite literal sets ctx, address, username, password,   *)
(* as and remoteAS; the client field keeps its zero value, and no version  *)
(* of main calls AddHTTPClient.  Spec above follows the program from the   *)
(* same start with the client in place.                                    *)

\* the client field of the A10 value main builds
A10Literal == NilClient

\* a.client.Do(req) in makeRequest: a nil *http.Client is dereferenced
NilDereference(c) == c = NilClient

\* a10.GetNeighbors(): login, makeRequest and its first attempt
MainFirstAttempt ==
    /\ pc = "start"
    /\ IF NilDereference(client)
       THEN /\ pc' = "panic"
            /\ UNCHANGED <<lvars, environ, evars, qvars, avars, hvars, cluster, kubeNodes,
                           a10Neighbors, pi, run, rvars, cvars>>
       ELSE MainGetNeighbors

InitMain ==
    /\ EIdle /\ AIdle /\ HIdle /\ RIdle /\ CIdle /\ QIdle
    /\ environ \in Environs
    /\ pc = "config"
    /\ cluster \in Clusters
    /\ kubeNodes = <<>> /\ a10Neighbors = <<>> /\ pi = 0 /\ run = NoRun
    /\ client = A10Literal /\ ctx = "live" /\ informer = "new"
    /\ inflight = NoInflight

NextMain ==
    \/ MainConfig
    \/ MainFirstAttempt

SpecMain == InitMain /\ [][NextMain]_vars

\* C33: when main reaches its first makeRequest attempt (in GetNeighbors)
\* the client field of the A10 value is set, and makeRequest never
\* dereferences a nil client.
C33_ClientInitialised ==
    /\ pc = "start" => client # NilClient
    /\ pc # "panic"

----------------------------------------------------------------------------
(* Specification SpecShutdown: the process from its start to its end, one  *)
(* step per makeRequest attempt, with the signal goroutine of              *)
(* gracefulShutdown, the goroutine of informer.Run and the listener        *)
(* goroutine that runs the handlers.  The client is in place.  pc is the   *)
(* position of main, inflight the client call in progress: its owner, the  *)
(* makeRequest it is in (login or the request proper), the attempts that   *)
(* makeRequest has made and, for removeExtraNeighbors, the calls still to  *)
(* come after this one.                                                    *)

svars == <<client, environ, evars, avars, hvars, cluster, kubeNodes, a10Neighbors,
           pi, run, rvars, cvars, queue, handling>>

\* the environments of this specification: the deployment's, with the
\* remote AS set or unset
ShutdownEnvirons ==
    {e \in Environs : /\ e.A10_ADDRESS = "host" /\ e.A10_USERNAME = "user"
                      /\ e.A10_PASSWORD = "pass" /\ e.A10_AS = <<"6", "5">>
                      /\ e.NODES_LABEL_SELECTOR = label
                      /\ e.A10_REMOTE_AS # <<"x">>}

\* <-ctx.Done() can be received: the context is cancelled
DoneNever(c) == FALSE

Done(c) == c = "cancelled"

\* informer.HasSynced
HasSynced(inf) == inf \in {"synced", "synced-stopped"}

\* main has returned or has exited in logger.Fatal
Terminated == pc \in {"exit", "fatal"}

\* a client call enters login's makeRequest
CallBegun(o, more) == [owner |-> o, kind |-> "login", n |-> 0, ops |-> more]

\* the goroutine of gracefulShutdown receives the signal and cancels
Signal ==
    /\ ~Terminated /\ ctx = "live"
    /\ ctx' = "cancelled"
    /\ UNCHANGED <<svars, pc, informer, inflight, returned>>

\* main calls a10.GetNeighbors
ShutdownGetNeighbors ==
    /\ pc = "start"
    /\ pc' = "neighbors"
    /\ inflight' = CallBegun("main", 0)
    /\ UNCHANGED <<svars, ctx, informer, returned>>

\* the client call of owner o returns to its caller, with or without error
CallReturns(o, ok) ==
    IF o = "handler"
    THEN /\ inflight' = NoInflight
         /\ returned' = returned + 1
         /\ UNCHANGED pc
    ELSE /\ UNCHANGED returned
         /\ IF ~ok THEN pc' = "fatal" /\ inflight' = NoInflight
            ELSE IF pc = "neighbors" THEN pc' = "nodes" /\ inflight' = NoInflight
            ELSE IF inflight.ops > 0
                 THEN inflight' = CallBegun("main", inflight.ops - 1) /\ UNCHANGED pc
                 ELSE pc' = "informer" /\ inflight' = NoInflight

\* one iteration of the loop of makeRequest for the call of owner o:
\* a.client.Do(req) on a request built with the context fails at once when
\* the context is cancelled
ShutdownAttempt(o) ==
    /\ ~Terminated /\ inflight.owner = o
    /\ \E ok \in (IF Done(ctx) THEN {FALSE} ELSE BOOLEAN) :
          IF ok
          THEN IF inflight.kind = "login"
               THEN /\ inflight' = [inflight EXCEPT !.kind = "request", !.n = 0]
                    /\ UNCHANGED <<pc, returned>>
               ELSE CallReturns(o, TRUE)
          ELSE IF inflight.n + 1 < maxRequestRetries
               THEN /\ inflight' = [inflight EXCEPT !.n = @ + 1]
                    /\ UNCHANGED <<pc, returned>>
               ELSE CallReturns(o, FALSE)
    /\ UNCHANGED <<svars, ctx, informer>>

MainAttempt == ShutdownAttempt("main")
HandlerAttempt == ShutdownAttempt("handler")

\* kubeNodes.GetNodes, listing under context.Background(), then
\* removeExtraNeighbors up to its first RemoveNeighbor
ShutdownGetNodes ==
    /\ pc = "nodes"
    /\ \E listOk \in BOOLEAN, extras \in 0..MaxFetch :
          IF ~listOk THEN pc' = "fatal" /\ UNCHANGED inflight
          ELSE IF extras = 0 THEN pc' = "informer" /\ UNCHANGED inflight
          ELSE pc' = "prune" /\ inflight' = CallBegun("main", extras - 1)
    /\ UNCHANGED <<svars, ctx, informer, returned>>

\* StartInformer up to go informer.Run(n.ctx.Done())
ShutdownStartInformer ==
    /\ pc = "informer"
    /\ pc' = "waitsync"
    /\ informer' = "running"
    /\ UNCHANGED <<svars, ctx, inflight, returned>>

\* the informer has listed the nodes
InformerSync ==
    /\ ~Terminated /\ informer = "running"
    /\ informer' = "synced"
    /\ UNCHANGED <<svars, pc, ctx, inflight, returned>>

\* informer.Run returns when its stop channel is closed
InformerStop ==
    /\ ~Terminated /\ informer \in {"running", "synced"} /\ Done(ctx)
    /\ informer' = IF HasSynced(informer) THEN "synced-stopped" ELSE "stopped"
    /\ UNCHANGED <<svars, pc, ctx, inflight, returned>>

\* the listener goroutine calls a handler whose node calls for a client call
HandlerBegin ==
    /\ ~Terminated /\ informer \in {"running", "synced"}
    /\ inflight.owner = "none" /\ returned < MaxEvents
    /\ inflight' = CallBegun("handler", 0)
    /\ UNCHANGED <<svars, pc, ctx, informer, returned>>

\* cache.WaitForCacheSync returns: false on the closed stop channel (and
\* StartInformer and main return), true once the informer has synced
ShutdownWaitForCacheSync ==
    /\ pc = "waitsync"
    /\ \/ Done(ctx) /\ pc' = "exit"
       \/ HasSynced(informer) /\ pc' = "waitdone"
    /\ UNCHANGED <<svars, ctx, informer, inflight, returned>>

\* <-n.ctx.Done(), then StartInformer and main return
ShutdownWaitDone ==
    /\ pc = "waitdone" /\ Done(ctx)
    /\ pc' = "exit"
    /\ UNCHANGED <<svars, ctx, informer, inflight, returned>>

InitShutdown ==
    /\ EIdle /\ HIdle /\ RIdle /\ CIdle /\ QIdle /\ LIdle
    /\ environ \in ShutdownEnvirons
    /\ neighbors = <<>> /\ signature = "s1"
    /\ pc = "config"
    /\ cluster = [n \in Range(NodeNames) |-> NoNode]
    /\ kubeNodes = <<>> /\ a10Neighbors = <<>> /\ pi = 0 /\ run = NoRun

NextShutdown ==
    \/ Signal
    \/ MainConfig
    \/ ShutdownGetNeighbors
    \/ MainAttempt
    \/ ShutdownGetNodes
    \/ ShutdownStartInformer
    \/ InformerSync
    \/ InformerStop
    \/ HandlerBegin
    \/ HandlerAttempt
    \/ ShutdownWaitForCacheSync
    \/ ShutdownWaitDone

SpecShutdown == InitShutdown /\ [][NextShutdown]_vars

\* Scheduling: the main goroutine and the listener goroutine keep running,
\* a.client.Do returns (the request carries the context and the client a
\* timeout), and the listing of GetNodes is answered.  Nothing is assumed of
\* the signal, of the informer's sync or of the arrival of events.
FairShutdown ==
    /\ SpecShutdown
    /\ WF_vars(MainConfig) /\ WF_vars(ShutdownGetNeighbors)
    /\ WF_vars(MainAttempt) /\ WF_vars(HandlerAttempt)
    /\ WF_vars(ShutdownGetNodes) /\ WF_vars(ShutdownStartInformer)
    /\ WF_vars(ShutdownWaitForCacheSync) /\ WF_vars(ShutdownWaitDone)

\* under a cancelled context the makeRequest in progress makes its
\* remaining attempts, each failing, and returns at the last of them
C31_Step ==
    (Done(ctx) /\ ~Terminated /\ inflight.owner # "none" /\ inflight' # inflight) =>
        \/ /\ inflight' = [inflight EXCEPT !.n = @ + 1]
           /\ inflight'.n < maxRequestRetries
        \/ /\ inflight.n = maxRequestRetries - 1
           /\ inflight' = NoInflight

====
